---- MODULE Spec2Model ----
(***************************************************************************)
(* opencode-flow: the pipeline executor (lib/runner.ts), the run-state     *)
(* store (lib/state.ts), the worktree manager (lib/worktree.ts) and the    *)
(* run / cleanup commands (commands/run.ts, commands/cleanup.ts).          *)
(*                                                                         *)
(* Every `ocf` invocation is an operating-system process.  A process is    *)
(* modelled by its position (pc) and its local variables; the file system  *)
(* (run-state files, directories) and the git repository (registered       *)
(* worktrees, branches) are shared.  One step of the model is one file     *)
(* system call, one git command or one event of the agent subprocess.      *)
(***************************************************************************)
EXTENDS Integers, Sequences, FiniteSets, TLC

(***************************************************************************)
(* Bounds of the model.                                                    *)
(***************************************************************************)
MaxAgents == 2      \* longest configured agent sequence
MaxStories == 2     \* longest list of story ids given to one `ocf run`
MaxCmds == 3        \* commands the operator issues in one behaviour
MaxClock == 1       \* largest value of the wall clock
MaxExit == 2        \* agent subprocesses exit with a code in 0..MaxExit

(***************************************************************************)
(* The inputs: story ids (one is a string prefix of another), the agent    *)
(* names in configured order, the processes.                               *)
(***************************************************************************)
IdOrder == <<"D-1", "D-10">>
Ids == {IdOrder[n] : n \in 1..Len(IdOrder)}
AllAgents == <<"build", "test", "review", "deploy">>
Procs == {1, 2}
SeqProcs == {1}
gitRoot == "/r"
null == "null"
NoExit == -1

VARIABLES
    config,      \* PipelineConfig.agents: the configured agent names, in order
    runs,        \* the runs directory: story id -> stored RunState
    dirs,        \* story ids whose directory gitRoot/<id> exists
    registered,  \* story ids whose path is a registered git worktree
    branches,    \* story ids whose branch flow/<id> exists
    now,         \* the wall clock read by new Date()
    proc,        \* per process: position and local variables
    cmds,        \* number of commands the operator has issued so far
    runsDir,     \* the runs directory exists (specification of the store)
    files,       \* the runs directory as files: file name -> text
    last,        \* the last call of a function of the store and what it gave
    saved        \* story id -> the state last given to saveRunState and not
                 \* deleted or overwritten from outside since

vars == <<config, runs, dirs, registered, branches, now, proc, cmds,
          runsDir, files, last, saved>>

\* the variables of the commands, the variables of the store
flowVars == <<config, runs, dirs, registered, branches, now, proc, cmds>>

storeVars == <<runsDir, files, last, saved>>

(***************************************************************************)
(* lib/worktree.ts                                                         *)
(***************************************************************************)
getWorktreePath(storyId) == gitRoot \o "/" \o storyId

getBranchName(storyId) == "flow/" \o storyId

\* String.prototype.includes
RECURSIVE includesFrom(_, _, _)
includesFrom(hay, needle, n) ==
    IF n + Len(needle) - 1 > Len(hay) THEN FALSE
    ELSE IF SubSeq(hay, n, n + Len(needle) - 1) = needle THEN TRUE
    ELSE includesFrom(hay, needle, n + 1)

includes(hay, needle) == includesFrom(hay, needle, 1)

\* stdout of `git worktree list --porcelain`: the main worktree, then one
\* block per registered worktree
RECURSIVE porcelainFrom(_, _)
porcelainFrom(reg, n) ==
    IF n > Len(IdOrder) THEN ""
    ELSE (IF IdOrder[n] \in reg
          THEN "\nworktree " \o getWorktreePath(IdOrder[n]) \o "\nbranch refs/heads/"
                   \o getBranchName(IdOrder[n]) \o "\n"
          ELSE "") \o porcelainFrom(reg, n + 1)

worktreeList(reg) == "worktree " \o gitRoot \o "\nbare\n" \o porcelainFrom(reg, 1)

\* variant: the story id instead of the worktree path is searched for
listedAsWorktree_byId(storyId, reg) ==
    includes(worktreeList(reg), "worktree " \o storyId)

\* the second half of worktreeExists: the path occurs in the porcelain list
listedAsWorktree(storyId, reg) ==
    includes(worktreeList(reg), "worktree " \o getWorktreePath(storyId))

\* variant: no worktree is ever found
worktreeExists_never(storyId, d, reg) == FALSE

worktreeExists(storyId, d, reg) ==
    IF storyId \notin d THEN FALSE ELSE listedAsWorktree(storyId, reg)

\* variant: git worktree add --force -B
canAddWorktree_force(storyId, d, reg, br, empty) == TRUE

\* `git worktree add -b flow/<id> <path>` succeeds on a fresh branch name and
\* a path that is not registered and is absent or an empty directory
canAddWorktree(storyId, d, reg, br, empty) ==
    (storyId \notin d \/ empty) /\ storyId \notin reg /\ storyId \notin br

(***************************************************************************)
(* lib/state.ts                                                            *)
(***************************************************************************)
\* variants of runStateExists with a plausible slip
runStateExists_never(storyId, rs) == FALSE

runStateExists_unfinished(storyId, rs) ==
    storyId \in DOMAIN rs /\ rs[storyId].status \notin {"completed", "failed"}

runStateExists_withWorktree(storyId, rs) == storyId \in DOMAIN rs /\ storyId \in dirs

runStateExists(storyId, rs) == storyId \in DOMAIN rs

\* new Date(t).toISOString(), t in seconds
toISOString(t) ==
    "1970-01-01T00:00:" \o (IF t < 10 THEN "0" ELSE "") \o ToString(t) \o ".000Z"

NaN == -1

\* new Date(text).getTime(), in seconds; NaN for a text that is no date
getTime(text) ==
    IF \E t \in 0..59 : toISOString(t) = text
    THEN CHOOSE t \in 0..59 : toISOString(t) = text
    ELSE NaN

\* the fields of a RunState, in the order createRunState writes them
RunStateFields ==
    <<"storyId", "branch", "worktreePath", "status", "currentAgent", "completedAgents",
      "startedAt", "updatedAt", "error">>

createRunState(storyId, branch, worktreePath, t) ==
    LET nowText == toISOString(t)
    IN  [storyId |-> storyId, branch |-> branch, worktreePath |-> worktreePath,
         status |-> "pending", currentAgent |-> null, completedAgents |-> <<>>,
         startedAt |-> nowText, updatedAt |-> nowText, error |-> null]

\* variant: the store holds the written record only
saveRunState_alone(state, rs) == [id \in {state.storyId} |-> state]

\* the store after writeFile of state under <storyId>.json
saveRunState(state, rs) ==
    [id \in DOMAIN rs \cup {state.storyId} |->
        IF id = state.storyId THEN state ELSE rs[id]]

\* the store after rm of <storyId>.json
removeRunState(storyId, rs) == [id \in DOMAIN rs \ {storyId} |-> rs[id]]

(***************************************************************************)
(* lib/state.ts at the level of file contents: JSON.stringify(state, null, *)
(* 2) and JSON.parse.  The strings of the model hold no character that     *)
(* JSON escapes.  A parsed value is a string, null, a sequence (array) or  *)
(* a function from keys to values (object); its kind is kept beside it.    *)
(***************************************************************************)
quote(text) == "\"" \o text \o "\""

RECURSIVE stringifyItems(_, _)
stringifyItems(items, n) ==
    IF n > Len(items) THEN ""
    ELSE "\n    " \o quote(items[n]) \o (IF n < Len(items) THEN "," ELSE "")
             \o stringifyItems(items, n + 1)

\* an array of strings, as a member of the top-level object
stringifyArray(items) ==
    IF items = <<>> THEN "[]" ELSE "[" \o stringifyItems(items, 1) \o "\n  ]"

stringifyField(state, key) ==
    IF key = "completedAgents" THEN stringifyArray(state[key])
    ELSE IF state[key] = null THEN "null"
    ELSE quote(state[key])

RECURSIVE stringifyMembers(_, _)
stringifyMembers(state, n) ==
    IF n > Len(RunStateFields) THEN ""
    ELSE "\n  " \o quote(RunStateFields[n]) \o ": " \o stringifyField(state, RunStateFields[n])
             \o (IF n < Len(RunStateFields) THEN "," ELSE "")
             \o stringifyMembers(state, n + 1)

\* JSON.stringify(state, null, 2) of a RunState
JSONstringify(state) == "{" \o stringifyMembers(state, 1) \o "\n}"

charAt(text, n) == IF n \in 1..Len(text) THEN SubSeq(text, n, n) ELSE ""

RECURSIVE skipWhitespace(_, _)
skipWhitespace(text, n) ==
    IF charAt(text, n) \in {" ", "\n"} THEN skipWhitespace(text, n + 1) ELSE n

\* the position of the first ch at or after n, 0 when there is none
RECURSIVE indexOf(_, _, _)
indexOf(text, ch, n) ==
    IF n > Len(text) THEN 0
    ELSE IF SubSeq(text, n, n) = ch THEN n
    ELSE indexOf(text, ch, n + 1)

Digits == {"0", "1", "2", "3", "4", "5", "6", "7", "8", "9"}

RECURSIVE skipDigits(_, _)
skipDigits(text, n) == IF charAt(text, n) \in Digits THEN skipDigits(text, n + 1) ELSE n

SyntaxError == [ok |-> FALSE, kind |-> "SyntaxError", value |-> null, next |-> 0]

Parsed(kind, value, next) == [ok |-> TRUE, kind |-> kind, value |-> value, next |-> next]

parseString(text, n) ==
    LET end == indexOf(text, "\"", n + 1)
    IN  IF charAt(text, n) = "\"" /\ end > 0
        THEN Parsed("string", SubSeq(text, n + 1, end - 1), end + 1)
        ELSE SyntaxError

RECURSIVE parseValue(_, _)
RECURSIVE parseElements(_, _, _)
RECURSIVE parseMembers(_, _, _)

\* the elements of an array after "[" or ","
parseElements(text, n, items) ==
    LET element == parseValue(text, skipWhitespace(text, n))
        after == skipWhitespace(text, element.next)
    IN  IF ~element.ok THEN SyntaxError
        ELSE IF charAt(text, after) = ","
             THEN parseElements(text, after + 1, Append(items, element.value))
        ELSE IF charAt(text, after) = "]"
             THEN Parsed("array", Append(items, element.value), after + 1)
        ELSE SyntaxError

\* the members of an object after "{" or ","; a repeated key keeps its last
\* value
parseMembers(text, n, object) ==
    LET key == parseString(text, skipWhitespace(text, n))
        colon == skipWhitespace(text, key.next)
        member == parseValue(text, skipWhitespace(text, colon + 1))
        after == skipWhitespace(text, member.next)
    IN  IF ~key.ok \/ charAt(text, colon) # ":" THEN SyntaxError
        ELSE IF ~member.ok THEN SyntaxError
        ELSE IF charAt(text, after) = ","
             THEN parseMembers(text, after + 1, (key.value :> member.value) @@ object)
        ELSE IF charAt(text, after) = "}"
             THEN Parsed("object", (key.value :> member.value) @@ object, after + 1)
        ELSE SyntaxError

parseValue(text, n) ==
    LET ch == charAt(text, n)
        first == skipWhitespace(text, n + 1)
    IN  IF ch = "\"" THEN parseString(text, n)
        ELSE IF ch = "{"
             THEN IF charAt(text, first) = "}" THEN Parsed("object", <<>>, first + 1)
                  ELSE parseMembers(text, n + 1, <<>>)
        ELSE IF ch = "["
             THEN IF charAt(text, first) = "]" THEN Parsed("array", <<>>, first + 1)
                  ELSE parseElements(text, n + 1, <<>>)
        ELSE IF ch \in Digits
             THEN Parsed("number", SubSeq(text, n, skipDigits(text, n) - 1), skipDigits(text, n))
        ELSE IF n + 3 <= Len(text) /\ SubSeq(text, n, n + 3) = "null"
             THEN Parsed("null", null, n + 4)
        ELSE SyntaxError

\* JSON.parse(text): the value and its kind, or a SyntaxError
JSONparse(text) ==
    LET parsed == parseValue(text, skipWhitespace(text, 1))
    IN  IF parsed.ok /\ skipWhitespace(text, parsed.next) > Len(text)
        THEN [parsed EXCEPT !.next = 0]
        ELSE SyntaxError

(***************************************************************************)
(* lib/state.ts on the files.  `runs` above is the same directory with     *)
(* each file replaced by the record it holds, which is sound while         *)
(* saveRunState is the only writer.                                        *)
(***************************************************************************)
\* variant: one file for all story ids
getRunStatePath_shared(storyId) == "state.json"

\* the file name under the runs directory
getRunStatePath(storyId) == storyId \o ".json"

endsWith(text, suffix) ==
    Len(text) >= Len(suffix)
        /\ SubSeq(text, Len(text) - Len(suffix) + 1, Len(text)) = suffix

writeFile(fs, path, text) ==
    [f \in DOMAIN fs \cup {path} |-> IF f = path THEN text ELSE fs[f]]

\* variant: the whole directory is emptied
rm_all(fs, path) == <<>>

rm(fs, path) == [f \in DOMAIN fs \ {path} |-> fs[f]]

\* what a call gives: a value with its kind, or an error
Returns(kind, value) == [outcome |-> "returned", kind |-> kind, value |-> value]

Throws(error) == [outcome |-> error, kind |-> "error", value |-> null]

\* loadRunState: null without the file, JSON.parse(content) as RunState
\* otherwise; a failure of JSON.parse is rethrown as StateError
loadRunState(storyId, fs) ==
    LET statePath == getRunStatePath(storyId)
    IN  IF statePath \notin DOMAIN fs THEN Returns("null", null)
        ELSE LET parsed == JSONparse(fs[statePath])
             IN  IF parsed.ok THEN Returns(parsed.kind, parsed.value)
                 ELSE Throws("StateError")

\* listRuns, the loop: the parsed content of every file that parses
RECURSIVE readStates(_, _)
readStates(fs, jsonFiles) ==
    IF jsonFiles = <<>> THEN <<>>
    ELSE LET parsed == JSONparse(fs[Head(jsonFiles)])
         IN  (IF parsed.ok THEN <<[kind |-> parsed.kind, value |-> parsed.value]>>
              ELSE <<>>) \o readStates(fs, Tail(jsonFiles))

\* new Date(entry.updatedAt).getTime(): NaN without the property
updatedTime(entry) ==
    IF entry.kind = "object" /\ "updatedAt" \in DOMAIN entry.value
    THEN getTime(entry.value["updatedAt"])
    ELSE NaN

\* the comparator of listRuns; a NaN result counts as 0
compareUpdatedAt(a, b) ==
    IF updatedTime(a) = NaN \/ updatedTime(b) = NaN THEN 0
    ELSE updatedTime(b) - updatedTime(a)

\* Array.prototype.sort is stable
RECURSIVE insertSorted(_, _)
insertSorted(sorted, entry) ==
    IF sorted = <<>> THEN <<entry>>
    ELSE IF compareUpdatedAt(sorted[Len(sorted)], entry) <= 0 THEN Append(sorted, entry)
    ELSE Append(insertSorted(SubSeq(sorted, 1, Len(sorted) - 1), entry), sorted[Len(sorted)])

RECURSIVE sortStates(_)
sortStates(states) ==
    IF states = <<>> THEN <<>>
    ELSE insertSorted(sortStates(SubSeq(states, 1, Len(states) - 1)), states[Len(states)])

\* listRuns; order is what readdir gave.  The comparator reads updatedAt of
\* both entries, which is a TypeError on null; it is called when there are
\* two entries or more
listRuns(exists, fs, order) ==
    IF ~exists THEN Returns("array", <<>>)
    ELSE LET jsonFiles == SelectSeq(order, LAMBDA f : endsWith(f, ".json"))
             states == readStates(fs, jsonFiles)
         IN  IF Len(states) >= 2 /\ \E n \in 1..Len(states) : states[n].kind = "null"
             THEN Throws("TypeError")
             ELSE Returns("array", sortStates(states))

(***************************************************************************)
(* Processes                                                               *)
(***************************************************************************)
NoState == createRunState("", "", "", 0)

\* what runPipeline found when it was called (kept to state the properties)
\* Further fields of a process that the program does not have: calls (the
\* story ids runPipeline was called with), invoked and exits (the agents
\* spawned in the current call and their exit codes as runAgent reported
\* them), code and stderr (how the last subprocess ended), created and wrote
\* (the story ids whose worktree this process created, whose record it
\* wrote).
NoPre == [runs |-> <<>>, dirs |-> {}, registered |-> {}, branches |-> {}]

IdleProc ==
    [pc |-> "idle", cmd |-> "none", storyIds |-> <<>>, i |-> 0, results |-> <<>>,
     exitCode |-> NoExit, ended |-> "none", calls |-> <<>>,
     storyId |-> "", worktreePath |-> "", state |-> NoState, k |-> 0,
     invoked |-> <<>>, exits |-> <<>>, pre |-> NoPre, result |-> [success |-> FALSE, exitCode |-> NoExit],
     code |-> NoExit, stderr |-> "", created |-> {}, wrote |-> {},
     summary |-> [completed |-> 0, failed |-> 0, skipped |-> 0],
     keepState |-> FALSE, hasWorktree |-> FALSE, hasState |-> FALSE]

Idle(p) == proc[p].pc \in {"idle", "exited"}

\* new Date(): the clock may have advanced since it was last read
Clock == {t \in now..(now + 1) : t <= MaxClock}

Configs == {SubSeq(AllAgents, 1, n) : n \in 1..MaxAgents}

StoryLists == UNION {[1..n -> Ids] : n \in 0..MaxStories}

NoCall == [op |-> "none", storyId |-> "", ret |-> Throws("none"), files |-> <<>>]

Init ==
    /\ config \in Configs
    /\ runs = <<>>
    /\ dirs = {}
    /\ registered = {}
    /\ branches = {}
    /\ now = 0
    /\ proc = [p \in Procs |-> IdleProc]
    /\ cmds = 0
    /\ runsDir = FALSE
    /\ files = <<>>
    /\ last = NoCall
    /\ saved = <<>>

PipelineResult(storyId, status, failedAgent, skipReason, error) ==
    [storyId |-> storyId, status |-> status, failedAgent |-> failedAgent,
     skipReason |-> skipReason, error |-> error]

\* the four results runPipeline returns
skippedResult(storyId, skipReason) ==
    PipelineResult(storyId, "skipped", null, skipReason, null)

\* variant: a failed creation reported as a skip
worktreeFailedResult_skipped(storyId, message) ==
    PipelineResult(storyId, "skipped", null, "Failed to create worktree: " \o message, null)

worktreeFailedResult(storyId, message) ==
    PipelineResult(storyId, "failed", null, null, "Failed to create worktree: " \o message)

agentError(name, exitCode) ==
    "Agent " \o name \o " failed with exit code " \o ToString(exitCode)

agentFailedResult(storyId, name, exitCode) ==
    PipelineResult(storyId, "failed", name, null, agentError(name, exitCode))

completedResult(storyId) == PipelineResult(storyId, "completed", null, null, null)

\* variant: the status is left as createRunState sets it
initialState_pending(storyId, worktreePath, t) ==
    createRunState(storyId, getBranchName(storyId), worktreePath, t)

\* the run states runPipeline builds before each saveRunState
initialState(storyId, worktreePath, t) ==
    [createRunState(storyId, getBranchName(storyId), worktreePath, t)
        EXCEPT !.status = "in_progress"]

\* variant: the checkpoint sets startedAt again
checkpointState_restarts(state, name, t) ==
    [state EXCEPT !.currentAgent = name, !.startedAt = toISOString(t),
                  !.updatedAt = toISOString(t)]

\* variant: the checkpoint refreshes updatedAt only
checkpointState_stale(state, name, t) == [state EXCEPT !.updatedAt = toISOString(t)]

checkpointState(state, name, t) ==
    [state EXCEPT !.currentAgent = name, !.updatedAt = toISOString(t)]

\* variant: the failure is recorded without its message
failedState_silent(state, name, exitCode, t) ==
    [state EXCEPT !.status = "failed", !.currentAgent = null, !.updatedAt = toISOString(t)]

\* variant: the failing agent is appended to completedAgents as well
failedState_appends(state, name, exitCode, t) ==
    [state EXCEPT !.status = "failed", !.currentAgent = null,
                  !.completedAgents = Append(@, name),
                  !.error = agentError(name, exitCode), !.updatedAt = toISOString(t)]

failedState(state, name, exitCode, t) ==
    [state EXCEPT !.status = "failed", !.currentAgent = null,
                  !.error = agentError(name, exitCode), !.updatedAt = toISOString(t)]

\* variant: the finished agent is put in front of completedAgents
agentDoneState_prepends(state, name, t) ==
    [state EXCEPT !.completedAgents = <<name>> \o @, !.updatedAt = toISOString(t)]

agentDoneState(state, name, t) ==
    [state EXCEPT !.completedAgents = Append(@, name), !.updatedAt = toISOString(t)]

\* variant: currentAgent is not cleared
completedState_keepsCurrent(state, t) ==
    [state EXCEPT !.status = "completed", !.updatedAt = toISOString(t)]

completedState(state, t) ==
    [state EXCEPT !.status = "completed", !.currentAgent = null, !.updatedAt = toISOString(t)]

\* the process ends: process.exit(code), an uncaught error or a signal; what
\* remains is what the operator saw of the command
Exit(pr, code, how) ==
    [IdleProc EXCEPT !.pc = "exited", !.exitCode = code, !.ended = how, !.cmd = pr.cmd,
                     !.storyIds = pr.storyIds, !.i = pr.i, !.results = pr.results,
                     !.calls = pr.calls, !.summary = pr.summary,
                     !.created = pr.created, !.wrote = pr.wrote,
                     !.storyId = IF pr.cmd = "cleanup" THEN pr.storyId ELSE "",
                     !.keepState = pr.keepState, !.hasWorktree = pr.hasWorktree,
                     !.hasState = pr.hasState]


SetProc(p, pr) == proc' = [proc EXCEPT ![p] = pr]

\* runPipeline returns result to runAction, which appends it to results
Return(pr, result) ==
    [pr EXCEPT !.results = Append(@, result), !.i = @ + 1, !.pc = "loop",
               !.state = NoState, !.k = 0, !.result = IdleProc.result]

\* an error that nothing catches ends the process with exit code 1
Throw(pr) == Exit(pr, 1, "uncaught")

(***************************************************************************)
(* commands/run.ts: runAction                                              *)
(***************************************************************************)
\* variant: the loop ends at the first failed result
loopDone_stopOnFailure(pr) ==
    pr.i > Len(pr.storyIds) \/ \E n \in 1..Len(pr.results) : pr.results[n].status = "failed"

\* for (let i = 0; i < storyIds.length; i++)
loopDone(pr) == pr.i > Len(pr.storyIds)

\* `ocf run` without story ids
RunNoIds(p) ==
    /\ Idle(p)
    /\ cmds < MaxCmds
    /\ cmds' = cmds + 1
    /\ SetProc(p, Exit([IdleProc EXCEPT !.cmd = "run"], 1, "exit"))
    /\ UNCHANGED <<storeVars, config, runs, dirs, registered, branches, now>>

\* `ocf run <storyId...>`: configuration and git root are loaded, the loop starts
StartRun(p) ==
    /\ Idle(p)
    /\ cmds < MaxCmds
    /\ cmds' = cmds + 1
    /\ \E ids \in StoryLists :
          /\ Len(ids) > 0
          /\ SetProc(p, [IdleProc EXCEPT !.cmd = "run", !.storyIds = ids, !.i = 1,
                                          !.pc = "loop"])
    /\ UNCHANGED <<storeVars, config, runs, dirs, registered, branches, now>>

\* one iteration of the loop begins: runPipeline(storyIds[i]) is called and
\* checks whether a run state exists
RunNext(p) ==
    LET pr == proc[p]
        storyId == pr.storyIds[pr.i]
        called == [pr EXCEPT !.calls = Append(@, storyId), !.storyId = storyId,
                             !.worktreePath = "", !.state = NoState, !.k = 0,
                             !.invoked = <<>>, !.exits = <<>>,
                             !.code = NoExit, !.stderr = "",
                             !.pre = [runs |-> runs, dirs |-> dirs,
                                      registered |-> registered, branches |-> branches]]
    IN  /\ pr.pc = "loop"
        /\ ~loopDone(pr)
        /\ IF runStateExists(storyId, runs)
           THEN SetProc(p, Return(called, skippedResult(storyId, "run already exists")))
           ELSE SetProc(p, [called EXCEPT !.pc = "wtExists"])
        /\ UNCHANGED <<storeVars, config, runs, dirs, registered, branches, now, cmds>>

\* worktreeExists called by runPipeline: existsSync(worktreePath)
PipelineWorktreeDir(p) ==
    LET pr == proc[p]
    IN  /\ pr.pc = "wtExists"
        /\ SetProc(p, [pr EXCEPT !.pc = IF pr.storyId \in dirs THEN "wtList"
                                        ELSE "createExists"])
        /\ UNCHANGED <<storeVars, config, runs, dirs, registered, branches, now, cmds>>

\* worktreeExists called by runPipeline: git worktree list --porcelain
PipelineWorktreeList(p) ==
    LET pr == proc[p]
    IN  /\ pr.pc = "wtList"
        /\ IF listedAsWorktree(pr.storyId, registered)
           THEN SetProc(p, Return(pr, skippedResult(pr.storyId, "worktree already exists")))
           ELSE SetProc(p, [pr EXCEPT !.pc = "createExists"])
        /\ UNCHANGED <<storeVars, config, runs, dirs, registered, branches, now, cmds>>

\* worktreeExists called by createWorktree: existsSync(worktreePath)
CreateWorktreeDir(p) ==
    LET pr == proc[p]
    IN  /\ pr.pc = "createExists"
        /\ SetProc(p, [pr EXCEPT !.pc = IF pr.storyId \in dirs THEN "createList"
                                        ELSE "createAdd"])
        /\ UNCHANGED <<storeVars, config, runs, dirs, registered, branches, now, cmds>>

\* worktreeExists called by createWorktree: git worktree list --porcelain;
\* createWorktree throws "Worktree already exists", which runPipeline catches
CreateWorktreeList(p) ==
    LET pr == proc[p]
    IN  /\ pr.pc = "createList"
        /\ IF listedAsWorktree(pr.storyId, registered)
           THEN SetProc(p, Return(pr, worktreeFailedResult(pr.storyId,
                    "Worktree already exists: " \o getWorktreePath(pr.storyId))))
           ELSE SetProc(p, [pr EXCEPT !.pc = "createAdd"])
        /\ UNCHANGED <<storeVars, config, runs, dirs, registered, branches, now, cmds>>

\* createWorktree: git worktree add -b <branch> <path>; the command can fail
\* for reasons outside the model too (gitOk); a directory found at the path
\* is empty or not
CreateWorktreeAdd(p) ==
    LET pr == proc[p]
    IN  /\ pr.pc = "createAdd"
        /\ \E gitOk \in BOOLEAN, empty \in BOOLEAN :
              IF gitOk /\ canAddWorktree(pr.storyId, dirs, registered, branches, empty)
              THEN /\ dirs' = dirs \cup {pr.storyId}
                   /\ registered' = registered \cup {pr.storyId}
                   /\ branches' = branches \cup {pr.storyId}
                   /\ SetProc(p, [pr EXCEPT !.worktreePath = getWorktreePath(pr.storyId),
                                            !.created = @ \cup {pr.storyId},
                                            !.pc = "initSave"])
              ELSE /\ SetProc(p, Return(pr, worktreeFailedResult(pr.storyId, "git")))
                   /\ UNCHANGED <<dirs, registered, branches>>
        /\ UNCHANGED <<storeVars, config, runs, now, cmds>>

\* state := st and saveRunState(st), then continue at pc next; the write can
\* fail, and the StateError is caught nowhere
SaveAnd(p, pr, st, next) ==
    \E ok \in BOOLEAN :
        IF ok
        THEN /\ runs' = saveRunState(st, runs)
             /\ SetProc(p, [next EXCEPT !.state = st, !.wrote = @ \cup {st.storyId}])
        ELSE /\ SetProc(p, Throw([pr EXCEPT !.state = st]))
             /\ UNCHANGED runs

\* runPipeline: createRunState, status in_progress, first saveRunState
PipelineInit(p) ==
    LET pr == proc[p]
    IN  /\ pr.pc = "initSave"
        /\ \E t \in Clock :
              /\ now' = t
              /\ SaveAnd(p, pr, initialState(pr.storyId, pr.worktreePath, t),
                    [pr EXCEPT !.k = 1, !.pc = "agentSave"])
        /\ UNCHANGED <<storeVars, config, dirs, registered, branches, cmds>>


(***************************************************************************)
(* lib/runner.ts: the agent loop of runPipeline, and runAgent              *)
(***************************************************************************)
\* variant: every close counts as a success
closeResult_alwaysSuccess(code) ==
    [success |-> TRUE, exitCode |-> IF code = NoExit THEN 1 ELSE code]

\* variant: code ?? 0
closeResult_nullIsZero(code) ==
    LET exitCode == IF code = NoExit THEN 0 ELSE code
    IN  [success |-> exitCode = 0, exitCode |-> exitCode]

\* the 'close' handler of runAgent; code is NoExit when the subprocess ended
\* without an exit code
closeResult(code) ==
    LET exitCode == IF code = NoExit THEN 1 ELSE code
    IN  [success |-> exitCode = 0, exitCode |-> exitCode]

\* the 'error' handler of runAgent
errorResult == [success |-> FALSE, exitCode |-> 1]

\* runPipeline: currentAgent := agent.name, saveRunState
AgentCheckpoint(p) ==
    LET pr == proc[p]
    IN  /\ pr.pc = "agentSave"
        /\ \E t \in Clock :
              /\ now' = t
              /\ SaveAnd(p, pr, checkpointState(pr.state, config[pr.k], t),
                    [pr EXCEPT !.pc = "agentRead"])
        /\ UNCHANGED <<storeVars, config, dirs, registered, branches, cmds>>

\* runAgent: readFile(promptPath); a failure is rethrown as RunnerError, which
\* neither runPipeline nor runAction catches
AgentReadPrompt(p) ==
    LET pr == proc[p]
    IN  /\ pr.pc = "agentRead"
        /\ \E readable \in BOOLEAN :
              SetProc(p, IF readable THEN [pr EXCEPT !.pc = "agentSpawn"] ELSE Throw(pr))
        /\ UNCHANGED <<storeVars, config, runs, dirs, registered, branches, now, cmds>>

\* runAgent: spawn("opencode", args, {cwd: worktreePath})
AgentSpawn(p) ==
    LET pr == proc[p]
    IN  /\ pr.pc = "agentSpawn"
        /\ SetProc(p, [pr EXCEPT !.invoked = Append(@, config[pr.k]), !.pc = "agentRun"])
        /\ UNCHANGED <<storeVars, config, runs, dirs, registered, branches, now, cmds>>

\* runAgent: the subprocess closes with an exit code, or without one
AgentClose(p) ==
    LET pr == proc[p]
    IN  /\ pr.pc = "agentRun"
        /\ \E code \in (0..MaxExit) \cup {NoExit} :
              SetProc(p, [pr EXCEPT !.result = closeResult(code), !.pc = "agentResult",
                                    !.exits = Append(@, closeResult(code).exitCode),
                                    !.code = code, !.stderr = ""])
        /\ UNCHANGED <<storeVars, config, runs, dirs, registered, branches, now, cmds>>

\* runAgent: the subprocess could not be started; the 'error' handler logs
\* and resolves
AgentError(p) ==
    LET pr == proc[p]
    IN  /\ pr.pc = "agentRun"
        /\ SetProc(p, [pr EXCEPT !.result = errorResult, !.pc = "agentResult",
                                 !.exits = Append(@, errorResult.exitCode),
                                 !.code = NoExit, !.stderr = "Failed to execute opencode"])
        /\ UNCHANGED <<storeVars, config, runs, dirs, registered, branches, now, cmds>>

\* runPipeline: !result.success: the failed state is saved and the result returned
AgentFailed(p) ==
    LET pr == proc[p]
        name == config[pr.k]
    IN  /\ pr.pc = "agentResult"
        /\ ~pr.result.success
        /\ \E t \in Clock :
              /\ now' = t
              /\ SaveAnd(p, pr, failedState(pr.state, name, pr.result.exitCode, t),
                    Return(pr, agentFailedResult(pr.storyId, name, pr.result.exitCode)))
        /\ UNCHANGED <<storeVars, config, dirs, registered, branches, cmds>>

\* runPipeline: the agent is appended to completedAgents, the loop goes on
AgentCompleted(p) ==
    LET pr == proc[p]
    IN  /\ pr.pc = "agentResult"
        /\ pr.result.success
        /\ \E t \in Clock :
              /\ now' = t
              /\ SaveAnd(p, pr, agentDoneState(pr.state, config[pr.k], t),
                    IF pr.k < Len(config)
                    THEN [pr EXCEPT !.k = @ + 1, !.pc = "agentSave"]
                    ELSE [pr EXCEPT !.pc = "finalSave"])
        /\ UNCHANGED <<storeVars, config, dirs, registered, branches, cmds>>

\* runPipeline: after the loop the completed state is saved
PipelineComplete(p) ==
    LET pr == proc[p]
    IN  /\ pr.pc = "finalSave"
        /\ \E t \in Clock :
              /\ now' = t
              /\ SaveAnd(p, pr, completedState(pr.state, t),
                    Return(pr, completedResult(pr.storyId)))
        /\ UNCHANGED <<storeVars, config, dirs, registered, branches, cmds>>

(***************************************************************************)
(* commands/run.ts: printSummary and the exit code                         *)
(***************************************************************************)
RECURSIVE countStatus(_, _)
countStatus(results, status) ==
    IF results = <<>> THEN 0
    ELSE (IF Head(results).status = status THEN 1 ELSE 0) + countStatus(Tail(results), status)

printSummary(results) ==
    [completed |-> countStatus(results, "completed"),
     failed |-> countStatus(results, "failed"),
     skipped |-> countStatus(results, "skipped")]

\* results.some((r) => r.status === "failed")
hasFailed(results) == \E n \in 1..Len(results) : results[n].status = "failed"

\* variant: a skip counts as a failure for the exit code
runExitCode_skips(results) ==
    IF \E n \in 1..Len(results) : results[n].status \in {"failed", "skipped"} THEN 1 ELSE 0

runExitCode(results) == IF hasFailed(results) THEN 1 ELSE 0

\* the loop is over: summary and process.exit
RunExit(p) ==
    LET pr == proc[p]
    IN  /\ pr.pc = "loop"
        /\ loopDone(pr)
        /\ SetProc(p, Exit([pr EXCEPT !.summary = printSummary(pr.results)],
                           runExitCode(pr.results), "exit"))
        /\ UNCHANGED <<storeVars, config, runs, dirs, registered, branches, now, cmds>>

\* the operator interrupts the command (and its agent subprocess)
Interrupt(p) ==
    /\ ~Idle(p)
    /\ SetProc(p, Exit(proc[p], 130, "killed"))
    /\ UNCHANGED <<storeVars, config, runs, dirs, registered, branches, now, cmds>>


(***************************************************************************)
(* commands/cleanup.ts: cleanupAction, with removeWorktree and             *)
(* deleteRunState                                                          *)
(***************************************************************************)
\* cleanupAction after the worktree part: delete the run state or finish
AfterWorktree(pr) ==
    IF pr.hasState /\ ~pr.keepState THEN [pr EXCEPT !.pc = "clDelExists"]
    ELSE Exit(pr, 0, "exit")

\* variant: cleanupAction goes on to the run state when removeWorktree failed
removeFailed_goesOn(pr) == AfterWorktree(pr)

\* cleanupAction: the catch around removeWorktree reports and exits with 1
removeFailed(pr) == Exit(pr, 1, "exit")

\* `ocf cleanup <storyId> [--keep-state]`
StartCleanup(p) ==
    /\ Idle(p)
    /\ cmds < MaxCmds
    /\ cmds' = cmds + 1
    /\ \E id \in Ids, keep \in BOOLEAN :
          SetProc(p, [IdleProc EXCEPT !.cmd = "cleanup", !.storyId = id,
                                      !.keepState = keep, !.pc = "clExists"])
    /\ UNCHANGED <<storeVars, config, runs, dirs, registered, branches, now>>

\* worktreeExists called by cleanupAction: existsSync(worktreePath)
CleanupWorktreeDir(p) ==
    LET pr == proc[p]
    IN  /\ pr.pc = "clExists"
        /\ SetProc(p, [pr EXCEPT !.pc = IF pr.storyId \in dirs THEN "clList" ELSE "clState"])
        /\ UNCHANGED <<storeVars, config, runs, dirs, registered, branches, now, cmds>>

\* worktreeExists called by cleanupAction: git worktree list --porcelain
CleanupWorktreeList(p) ==
    LET pr == proc[p]
    IN  /\ pr.pc = "clList"
        /\ SetProc(p, [pr EXCEPT !.hasWorktree = listedAsWorktree(pr.storyId, registered),
                                 !.pc = "clState"])
        /\ UNCHANGED <<storeVars, config, runs, dirs, registered, branches, now, cmds>>

\* cleanupAction: hasState, and the exit when there is nothing to clean up
CleanupCheckState(p) ==
    LET pr == proc[p]
        checked == [pr EXCEPT !.hasState = runStateExists(pr.storyId, runs)]
    IN  /\ pr.pc = "clState"
        /\ SetProc(p, IF ~checked.hasWorktree /\ ~checked.hasState THEN Exit(checked, 1, "exit")
                      ELSE IF checked.hasWorktree THEN [checked EXCEPT !.pc = "clRemove"]
                      ELSE AfterWorktree(checked))
        /\ UNCHANGED <<storeVars, config, runs, dirs, registered, branches, now, cmds>>

\* removeWorktree: git worktree remove <path> --force.  A path that is not
\* registered gives "is not a working tree", which is swallowed; any other
\* failure (gitOk false) is rethrown and cleanupAction exits with 1
CleanupRemove(p) ==
    LET pr == proc[p]
    IN  /\ pr.pc = "clRemove"
        /\ \E gitOk \in BOOLEAN :
              IF ~gitOk
              THEN /\ SetProc(p, removeFailed(pr))
                   /\ UNCHANGED <<dirs, registered>>
              ELSE /\ SetProc(p, [pr EXCEPT !.pc = "clBranch"])
                   /\ IF pr.storyId \in registered
                      THEN /\ dirs' = dirs \ {pr.storyId}
                           /\ registered' = registered \ {pr.storyId}
                      ELSE UNCHANGED <<dirs, registered>>
        /\ UNCHANGED <<storeVars, config, runs, branches, now, cmds>>

\* removeWorktree: git branch -D <branch>; a failure is ignored
CleanupBranch(p) ==
    LET pr == proc[p]
    IN  /\ pr.pc = "clBranch"
        /\ \E gitOk \in BOOLEAN :
              branches' = IF gitOk /\ pr.storyId \notin registered
                          THEN branches \ {pr.storyId} ELSE branches
        /\ SetProc(p, AfterWorktree(pr))
        /\ UNCHANGED <<storeVars, config, runs, dirs, registered, now, cmds>>

\* deleteRunState: existsSync(statePath)
CleanupDeleteExists(p) ==
    LET pr == proc[p]
    IN  /\ pr.pc = "clDelExists"
        /\ SetProc(p, IF runStateExists(pr.storyId, runs) THEN [pr EXCEPT !.pc = "clRm"]
                      ELSE Exit(pr, 0, "exit"))
        /\ UNCHANGED <<storeVars, config, runs, dirs, registered, branches, now, cmds>>

\* deleteRunState: rm(statePath); a failure becomes a StateError, which
\* cleanupAction reports with exit code 1
CleanupDeleteRm(p) ==
    LET pr == proc[p]
    IN  /\ pr.pc = "clRm"
        /\ \E ok \in BOOLEAN :
              IF ok /\ runStateExists(pr.storyId, runs)
              THEN /\ runs' = removeRunState(pr.storyId, runs)
                   /\ SetProc(p, Exit(pr, 0, "exit"))
              ELSE /\ SetProc(p, Exit(pr, 1, "exit"))
                   /\ UNCHANGED runs
        /\ UNCHANGED <<storeVars, config, dirs, registered, branches, now, cmds>>

(***************************************************************************)
(* The operator changes directories by hand while no command runs: a       *)
(* leftover directory appears, or a worktree directory is deleted without  *)
(* git.                                                                    *)
(***************************************************************************)
ManualMkdir ==
    /\ \A p \in Procs : Idle(p)
    /\ cmds < MaxCmds
    /\ cmds' = cmds + 1
    /\ \E id \in Ids \ dirs : dirs' = dirs \cup {id}
    /\ UNCHANGED <<storeVars, config, runs, registered, branches, now, proc>>

ManualRmdir ==
    /\ \A p \in Procs : Idle(p)
    /\ cmds < MaxCmds
    /\ cmds' = cmds + 1
    /\ \E id \in dirs : dirs' = dirs \ {id}
    /\ UNCHANGED <<storeVars, config, runs, registered, branches, now, proc>>

(***************************************************************************)
(* Specification: one operator, one command at a time.                     *)
(***************************************************************************)
Step(p) ==
    \/ RunNoIds(p)
    \/ StartRun(p)
    \/ RunNext(p)
    \/ PipelineWorktreeDir(p)
    \/ PipelineWorktreeList(p)
    \/ CreateWorktreeDir(p)
    \/ CreateWorktreeList(p)
    \/ CreateWorktreeAdd(p)
    \/ PipelineInit(p)
    \/ AgentCheckpoint(p)
    \/ AgentReadPrompt(p)
    \/ AgentSpawn(p)
    \/ AgentClose(p)
    \/ AgentError(p)
    \/ AgentFailed(p)
    \/ AgentCompleted(p)
    \/ PipelineComplete(p)
    \/ RunExit(p)
    \/ Interrupt(p)
    \/ StartCleanup(p)
    \/ CleanupWorktreeDir(p)
    \/ CleanupWorktreeList(p)
    \/ CleanupCheckState(p)
    \/ CleanupRemove(p)
    \/ CleanupBranch(p)
    \/ CleanupDeleteExists(p)
    \/ CleanupDeleteRm(p)

Next ==
    \/ \E p \in SeqProcs : Step(p)
    \/ ManualMkdir
    \/ ManualRmdir

Spec == Init /\ [][Next]_vars

(***************************************************************************)
(* Specification of a race: two processes, each started once as            *)
(* `ocf run <id>` on a repository without records and worktrees; their     *)
(* file system calls and git commands interleave in any order.             *)
(***************************************************************************)
StartRace(p) ==
    /\ proc[p].pc = "idle"
    /\ cmds' = cmds + 1
    /\ \E id \in Ids :
          SetProc(p, [IdleProc EXCEPT !.cmd = "run", !.storyIds = <<id>>, !.i = 1,
                                      !.pc = "loop"])
    /\ UNCHANGED <<storeVars, config, runs, dirs, registered, branches, now>>

StepRace(p) ==
    \/ StartRace(p)
    \/ RunNext(p)
    \/ PipelineWorktreeDir(p)
    \/ PipelineWorktreeList(p)
    \/ CreateWorktreeDir(p)
    \/ CreateWorktreeList(p)
    \/ CreateWorktreeAdd(p)
    \/ PipelineInit(p)
    \/ AgentCheckpoint(p)
    \/ AgentReadPrompt(p)
    \/ AgentSpawn(p)
    \/ AgentClose(p)
    \/ AgentError(p)
    \/ AgentFailed(p)
    \/ AgentCompleted(p)
    \/ PipelineComplete(p)
    \/ RunExit(p)

NextRace == \E p \in Procs : StepRace(p)

SpecRace == Init /\ [][NextRace]_vars


(***************************************************************************)
(* Specification of the store: the functions of lib/state.ts are called in *)
(* any order with any run state, and other programs write files into the   *)
(* runs directory.                                                         *)
(***************************************************************************)
\* run states as runPipeline builds them
RunStates ==
    UNION {LET first == initialState(id, getWorktreePath(id), 0)
               running == checkpointState(first, config[1], t)
           IN  {running,
                failedState(running, config[1], 1, t),
                completedState([running EXCEPT !.completedAgents = config], t)}
           : id \in Ids, t \in 0..MaxClock}

\* texts that are no run state: no JSON, and JSON of another shape
OtherTexts == {"invalid json {", "null", "{}"}

FileNames == {getRunStatePath(id) : id \in Ids} \cup {"notes.txt"}

\* the orders in which readdir can give the names
Orders(names) ==
    {order \in [1..Cardinality(names) -> names] :
        \A m, n \in 1..Cardinality(names) : order[m] = order[n] => m = n}

\* a call and what it gave; before is the directory as deleteRunState found it
Call(op, storyId, ret, before) ==
    [op |-> op, storyId |-> storyId, ret |-> ret, files |-> before]

\* saveRunState(state): ensureRunsDir, JSON.stringify, writeFile; a failure
\* of mkdir or of writeFile is rethrown as StateError
SaveRunState ==
    /\ \E storyId \in Ids, failing \in {"none", "mkdir", "writeFile"} :
          IF failing = "none"
          THEN \E state \in {st \in RunStates : st.storyId = storyId} :
                  /\ runsDir' = TRUE
                  /\ files' = writeFile(files, getRunStatePath(state.storyId),
                                        JSONstringify(state))
                  /\ saved' = [id \in DOMAIN saved \cup {state.storyId} |->
                                  IF id = state.storyId THEN state ELSE saved[id]]
                  /\ last' = Call("save", state.storyId, Returns("undefined", null), <<>>)
          ELSE /\ runsDir' = (runsDir \/ failing = "writeFile")
               /\ last' = Call("save", storyId, Throws("StateError"), <<>>)
               /\ UNCHANGED <<files, saved>>
    /\ UNCHANGED flowVars

LoadRunState ==
    /\ \E storyId \in Ids : last' = Call("load", storyId, loadRunState(storyId, files), <<>>)
    /\ UNCHANGED <<flowVars, runsDir, files, saved>>

ListRuns ==
    /\ \E order \in Orders(DOMAIN files) :
          last' = Call("list", "", listRuns(runsDir, files, order), <<>>)
    /\ UNCHANGED <<flowVars, runsDir, files, saved>>

\* deleteRunState(storyId): false without the file; rm otherwise, whose
\* failure is rethrown as StateError
DeleteRunState ==
    /\ \E storyId \in Ids, ok \in BOOLEAN :
          LET statePath == getRunStatePath(storyId)
          IN  IF statePath \notin DOMAIN files
              THEN /\ last' = Call("delete", storyId, Returns("boolean", FALSE), files)
                   /\ UNCHANGED <<files, saved>>
              ELSE IF ok
              THEN /\ files' = rm(files, statePath)
                   /\ saved' = [id \in DOMAIN saved \ {storyId} |-> saved[id]]
                   /\ last' = Call("delete", storyId, Returns("boolean", TRUE), files)
              ELSE /\ last' = Call("delete", storyId, Throws("StateError"), files)
                   /\ UNCHANGED <<files, saved>>
    /\ UNCHANGED <<flowVars, runsDir>>

\* another program (an editor, a crashed writer) leaves a file in the runs
\* directory
WriteFileSync ==
    /\ \E name \in FileNames, text \in OtherTexts :
          /\ files' = writeFile(files, name, text)
          /\ saved' = [id \in {i \in DOMAIN saved : getRunStatePath(i) # name} |-> saved[id]]
    /\ runsDir' = TRUE
    /\ last' = [NoCall EXCEPT !.op = "writeFileSync"]
    /\ UNCHANGED flowVars

NextStore ==
    \/ SaveRunState
    \/ LoadRunState
    \/ ListRuns
    \/ DeleteRunState
    \/ WriteFileSync

SpecStore == Init /\ [][NextStore]_vars

(***************************************************************************)
(* Specification of the worktree manager: worktreeExists, createWorktree   *)
(* and removeWorktree of lib/worktree.ts are called in any order for any   *)
(* story id, and directories appear and disappear without git.  last holds *)
(* the call, what it gave and what it found.                               *)
(***************************************************************************)
ThrowsMessage(error, message) == [outcome |-> error, kind |-> "error", value |-> message]

WorktreeCall(op, storyId, deleteBranch, branchFailed, ret) ==
    [op |-> op, storyId |-> storyId, deleteBranch |-> deleteBranch,
     branchFailed |-> branchFailed, ret |-> ret,
     before |-> [dirs |-> dirs, registered |-> registered, branches |-> branches]]

WorktreeExists ==
    /\ \E storyId \in Ids :
          last' = WorktreeCall("worktreeExists", storyId, FALSE, FALSE,
                      Returns("boolean", worktreeExists(storyId, dirs, registered)))
    /\ UNCHANGED <<flowVars, runsDir, files, saved>>

\* createWorktree: the collision error, or git worktree add -b, whose
\* failure is rethrown as WorktreeError
CreateWorktree ==
    /\ \E storyId \in Ids, gitOk \in BOOLEAN, empty \in BOOLEAN :
          IF worktreeExists(storyId, dirs, registered)
          THEN /\ last' = WorktreeCall("createWorktree", storyId, FALSE, FALSE,
                              ThrowsMessage("WorktreeError",
                                  "Worktree already exists: " \o getWorktreePath(storyId)))
               /\ UNCHANGED <<dirs, registered, branches>>
          ELSE IF gitOk /\ canAddWorktree(storyId, dirs, registered, branches, empty)
          THEN /\ dirs' = dirs \cup {storyId}
               /\ registered' = registered \cup {storyId}
               /\ branches' = branches \cup {storyId}
               /\ last' = WorktreeCall("createWorktree", storyId, FALSE, FALSE,
                              Returns("string", getWorktreePath(storyId)))
          ELSE /\ last' = WorktreeCall("createWorktree", storyId, FALSE, FALSE,
                              ThrowsMessage("WorktreeError", "git worktree add failed"))
               /\ UNCHANGED <<dirs, registered, branches>>
    /\ UNCHANGED <<config, runs, now, proc, cmds, runsDir, files, saved>>

\* removeWorktree: git worktree remove --force, where "is not a working
\* tree" is swallowed and any other failure rethrown; then git branch -D
\* when deleteBranch, whose failure is swallowed
RemoveWorktree ==
    /\ \E storyId \in Ids, deleteBranch \in BOOLEAN, removeOk \in BOOLEAN,
          branchOk \in BOOLEAN :
          IF ~removeOk
          THEN /\ last' = WorktreeCall("removeWorktree", storyId, deleteBranch, FALSE,
                              ThrowsMessage("WorktreeError", "git worktree remove failed"))
               /\ UNCHANGED <<dirs, registered, branches>>
          ELSE /\ IF storyId \in registered
                  THEN /\ dirs' = dirs \ {storyId}
                       /\ registered' = registered \ {storyId}
                  ELSE UNCHANGED <<dirs, registered>>
               /\ branches' = IF deleteBranch /\ branchOk THEN branches \ {storyId}
                               ELSE branches
               /\ last' = WorktreeCall("removeWorktree", storyId, deleteBranch,
                              deleteBranch /\ ~branchOk, Returns("undefined", null))
    /\ UNCHANGED <<config, runs, now, proc, cmds, runsDir, files, saved>>

\* a directory is made or deleted at a worktree path without git
StrayDirectory ==
    /\ \E storyId \in Ids :
          dirs' = IF storyId \in dirs THEN dirs \ {storyId} ELSE dirs \cup {storyId}
    /\ last' = [NoCall EXCEPT !.op = "directory"]
    /\ UNCHANGED <<config, runs, registered, branches, now, proc, cmds, runsDir, files, saved>>

NextWorktree ==
    \/ WorktreeExists
    \/ CreateWorktree
    \/ RemoveWorktree
    \/ StrayDirectory

SpecWorktree == Init /\ [][NextWorktree]_vars

(***************************************************************************)
(* Specification of a recovery: three commands one after the other, where  *)
(* a directory may have been left at a worktree path before the first:     *)
(* `ocf run` with any story ids, ending in any way; then `ocf cleanup` of  *)
(* any id with or without --keep-state, ending in any way; then            *)
(* `ocf run <id>`.  Process 1 is the two run commands, process 2 the       *)
(* cleanup, so that the cleanup stays visible while the second run goes    *)
(* on.                                                                     *)
(***************************************************************************)
LeftoverDirectory ==
    /\ cmds = 0
    /\ dirs = {}
    /\ \E id \in Ids : dirs' = {id}
    /\ UNCHANGED <<storeVars, config, runs, registered, branches, now, proc, cmds>>

FirstRun ==
    /\ cmds = 0
    /\ StartRun(1)

RecoverCleanup ==
    /\ cmds = 1
    /\ proc[1].pc = "exited"
    /\ StartCleanup(2)

SecondRun ==
    /\ cmds = 2
    /\ proc[2].pc = "exited"
    /\ cmds' = 3
    /\ \E id \in Ids :
          SetProc(1, [IdleProc EXCEPT !.cmd = "run", !.storyIds = <<id>>, !.i = 1,
                                      !.pc = "loop"])
    /\ UNCHANGED <<storeVars, config, runs, dirs, registered, branches, now>>

NextRecover ==
    \/ LeftoverDirectory
    \/ FirstRun
    \/ RunNext(1)
    \/ PipelineWorktreeDir(1)
    \/ PipelineWorktreeList(1)
    \/ CreateWorktreeDir(1)
    \/ CreateWorktreeList(1)
    \/ CreateWorktreeAdd(1)
    \/ PipelineInit(1)
    \/ AgentCheckpoint(1)
    \/ AgentReadPrompt(1)
    \/ AgentSpawn(1)
    \/ AgentClose(1)
    \/ AgentError(1)
    \/ AgentFailed(1)
    \/ AgentCompleted(1)
    \/ PipelineComplete(1)
    \/ RunExit(1)
    \/ Interrupt(1)
    \/ RecoverCleanup
    \/ CleanupWorktreeDir(2)
    \/ CleanupWorktreeList(2)
    \/ CleanupCheckState(2)
    \/ CleanupRemove(2)
    \/ CleanupBranch(2)
    \/ CleanupDeleteExists(2)
    \/ CleanupDeleteRm(2)
    \/ Interrupt(2)
    \/ SecondRun

SpecRecover == Init /\ [][NextRecover]_vars

(***************************************************************************)
(* lib/template.ts: substituteVariables.  TEMPLATE_VAR_PATTERN is          *)
(* /\{\{(\w+)\}\}/g: two opening braces, one or more word characters, two  *)
(* closing braces; replace() scans the text from left to right and goes on *)
(* behind each match.                                                      *)
(***************************************************************************)
\* \w
WordChars ==
    {"a", "b", "c", "d", "e", "f", "g", "h", "i", "j", "k", "l", "m", "n", "o", "p",
     "q", "r", "s", "t", "u", "v", "w", "x", "y", "z",
     "A", "B", "C", "D", "E", "F", "G", "H", "I", "J", "K", "L", "M", "N", "O", "P",
     "Q", "R", "S", "T", "U", "V", "W", "X", "Y", "Z",
     "0", "1", "2", "3", "4", "5", "6", "7", "8", "9", "_"}

\* the position behind the word characters that begin at n
RECURSIVE skipWord(_, _)
skipWord(text, n) == IF charAt(text, n) \in WordChars THEN skipWord(text, n + 1) ELSE n

\* variant: blanks around the name are accepted
matchEnd_trims(text, n) ==
    LET from == skipWhitespace(text, n + 2)
        end == skipWhitespace(text, skipWord(text, from))
    IN  IF charAt(text, n) = "{" /\ charAt(text, n + 1) = "{" /\ skipWord(text, from) > from
           /\ charAt(text, end) = "}" /\ charAt(text, end + 1) = "}"
        THEN end + 1 ELSE 0

\* the pattern matched at position n: the position of the last character of
\* the match, 0 when there is no match at n
matchEnd(text, n) ==
    LET end == skipWord(text, n + 2)
    IN  IF charAt(text, n) = "{" /\ charAt(text, n + 1) = "{" /\ end > n + 2
           /\ charAt(text, end) = "}" /\ charAt(text, end + 1) = "}"
        THEN end + 1 ELSE 0

\* variant: every occurrence of a missing name is recorded
pushMissing_always(missingVariables, varName) == Append(missingVariables, varName)

\* if (!missingVariables.includes(varName)) missingVariables.push(varName)
pushMissing(missingVariables, varName) ==
    IF \E j \in 1..Len(missingVariables) : missingVariables[j] = varName
    THEN missingVariables
    ELSE Append(missingVariables, varName)

\* variant: a placeholder without a value is replaced by the empty string
replacement_blank(match, varName, variables) ==
    IF varName \in DOMAIN variables THEN variables[varName] ELSE ""

\* what the replacer function returns for a match: variableMap.get(varName),
\* or the match itself when there is no value
replacement(match, varName, variables) ==
    IF varName \in DOMAIN variables THEN variables[varName] ELSE match

\* template.replace(TEMPLATE_VAR_PATTERN, replacer) from position n on, with
\* the result and the missing variables found so far
RECURSIVE replaceFrom(_, _, _, _)
replaceFrom(template, n, variables, found) ==
    IF n > Len(template) THEN found
    ELSE LET end == matchEnd(template, n)
             match == SubSeq(template, n, end)
             varName == SubSeq(template, n + 2, end - 2)
         IN  IF end = 0
             THEN replaceFrom(template, n + 1, variables,
                      [found EXCEPT !.result = @ \o charAt(template, n)])
             ELSE replaceFrom(template, end + 1, variables,
                      [result |-> found.result \o replacement(match, varName, variables),
                       missingVariables |->
                           IF varName \in DOMAIN variables THEN found.missingVariables
                           ELSE pushMissing(found.missingVariables, varName)])

substituteVariables(template, variables) ==
    replaceFrom(template, 1, variables, [result |-> "", missingVariables |-> <<>>])

\* the variables runAgent passes
TemplateVariables(storyId, agentName) ==
    [storyId |-> storyId, branch |-> getBranchName(storyId),
     worktreePath |-> getWorktreePath(storyId), agentName |-> agentName]

(***************************************************************************)
(* Specification of the template engine: substituteVariables is called     *)
(* once with a template made of up to MaxTokens pieces and with the        *)
(* variables of a story and an agent.  The pieces are placeholders of the  *)
(* four variables, placeholders of other names, malformed placeholders and *)
(* plain text; last holds the call, its pieces and what it returned.       *)
(***************************************************************************)
MaxTokens == 3

Known == {"storyId", "branch", "worktreePath", "agentName"}

Unknown == {"x", "y_1"}

Placeholder(name) == "{{" \o name \o "}}"

\* well-formed placeholders, malformed ones, plain text
Tokens ==
    {Placeholder(name) : name \in Known \cup Unknown}
        \cup {"{{ storyId }}", "{storyId}", "{{branch", "{{}}"}
        \cup {" and "}

RECURSIVE join(_)
join(parts) == IF parts = <<>> THEN "" ELSE Head(parts) \o join(Tail(parts))

InitTemplate ==
    /\ config \in Configs
    /\ runs = <<>>
    /\ dirs = {}
    /\ registered = {}
    /\ branches = {}
    /\ now = 0
    /\ proc = [p \in Procs |-> IdleProc]
    /\ cmds = 0
    /\ runsDir = FALSE
    /\ files = <<>>
    /\ saved = <<>>
    /\ \E n \in 0..MaxTokens :
          \E parts \in [1..n -> Tokens], storyId \in Ids, k \in 1..Len(config) :
              last = [op |-> "none", parts |-> parts, template |-> join(parts),
                      variables |-> TemplateVariables(storyId, config[k]),
                      ret |-> [result |-> "", missingVariables |-> <<>>]]

SubstituteVariables ==
    /\ last.op = "none"
    /\ last' = [last EXCEPT !.op = "substituteVariables",
                            !.ret = substituteVariables(last.template, last.variables)]
    /\ UNCHANGED <<flowVars, runsDir, files, saved>>

SpecTemplate == InitTemplate /\ [][SubstituteVariables]_vars

(***************************************************************************)
(* Specification of one agent run: runAgent of lib/runner.ts is called     *)
(* once for a story and an agent of the configuration, whose prompt file   *)
(* holds a template of up to MaxPromptTokens pieces; the agent and the     *)
(* settings name a model and an opencode agent or not (an agent name may   *)
(* be the empty string, which validateAgent accepts).  last holds the      *)
(* call: the agent's model and agent, the settings, where the call         *)
(* is, the arguments opencode was started with, whether the warning was    *)
(* printed, how the subprocess ended and what runAgent returned.           *)
(***************************************************************************)
MaxPromptTokens == 2

\* agent.model ?? config.settings?.defaultModel; null stands for undefined,
\* settings.present tells whether the configuration has settings
getEffectiveModel(agent, settings) ==
    IF agent.model # null THEN agent.model
    ELSE IF settings.present THEN settings.defaultModel ELSE null

\* agent.agent ?? config.settings?.defaultAgent
getEffectiveAgent(agent, settings) ==
    IF agent.agent # null THEN agent.agent
    ELSE IF settings.present THEN settings.defaultAgent ELSE null

\* variant: the prompt is put in front of the flags
spawnArgs_promptFirst(model, agentName, prompt) ==
    <<"run", prompt>>
        \o (IF model \notin {null, ""} THEN <<"--model", model>> ELSE <<>>)
        \o (IF agentName \notin {null, ""} THEN <<"--agent", agentName>> ELSE <<>>)

\* runAgent: the arguments of opencode, flags first, the prompt last;
\* if (model), if (agentName): undefined and the empty string add no flag
spawnArgs(model, agentName, prompt) ==
    <<"run">>
        \o (IF model \notin {null, ""} THEN <<"--model", model>> ELSE <<>>)
        \o (IF agentName \notin {null, ""} THEN <<"--agent", agentName>> ELSE <<>>)
        \o <<prompt>>

InitAgent ==
    /\ config \in Configs
    /\ runs = <<>>
    /\ dirs = {}
    /\ registered = {}
    /\ branches = {}
    /\ now = 0
    /\ proc = [p \in Procs |-> IdleProc]
    /\ cmds = 0
    /\ runsDir = FALSE
    /\ files = <<>>
    /\ saved = <<>>
    /\ \E n \in 0..MaxPromptTokens :
          \E parts \in [1..n -> Tokens], storyId \in Ids, k \in 1..Len(config),
             model \in {null, "anthropic/m"}, agentName \in {null, "coder", ""},
             present \in BOOLEAN, defaultModel \in {null, "openai/d"},
             defaultAgent \in {null, "planner"} :
              /\ (~present => (defaultModel = null /\ defaultAgent = null))
              /\ last = [op |-> "runAgent", pc |-> "read", parts |-> parts,
                      template |-> join(parts),
                      variables |-> TemplateVariables(storyId, config[k]),
                      model |-> model, agent |-> agentName,
                      settings |-> [present |-> present, defaultModel |-> defaultModel,
                                    defaultAgent |-> defaultAgent],
                      missingVariables |-> <<>>, warned |-> FALSE, args |-> <<>>,
                      cwd |-> "", ended |-> "none", code |-> NoExit,
                      ret |-> Throws("none")]

\* runAgent: readFile(promptPath); a failure is rethrown as RunnerError
RunAgentRead ==
    /\ last.op = "runAgent"
    /\ last.pc = "read"
    /\ \E readable \in BOOLEAN :
          last' = IF readable THEN [last EXCEPT !.pc = "spawn"]
                  ELSE [last EXCEPT !.pc = "thrown", !.ret = Throws("RunnerError")]
    /\ UNCHANGED <<flowVars, runsDir, files, saved>>

\* runAgent: substituteVariables, the warning, the arguments, spawn
RunAgentSpawn ==
    /\ last.op = "runAgent"
    /\ last.pc = "spawn"
    /\ LET substituted == substituteVariables(last.template, last.variables)
       IN  last' = [last EXCEPT !.pc = "running",
                                !.missingVariables = substituted.missingVariables,
                                !.warned = Len(substituted.missingVariables) > 0,
                                !.args = spawnArgs(getEffectiveModel(last, last.settings),
                                                   getEffectiveAgent(last, last.settings),
                                                   substituted.result),
                                !.cwd = last.variables.worktreePath]
    /\ UNCHANGED <<flowVars, runsDir, files, saved>>

\* runAgent: the 'close' handler
RunAgentClose ==
    /\ last.op = "runAgent"
    /\ last.pc = "running"
    /\ \E code \in (0..MaxExit) \cup {NoExit} :
          last' = [last EXCEPT !.pc = "done", !.ended = "close", !.code = code,
                               !.ret = Returns("AgentResult", closeResult(code))]
    /\ UNCHANGED <<flowVars, runsDir, files, saved>>

\* runAgent: the 'error' handler
RunAgentError ==
    /\ last.op = "runAgent"
    /\ last.pc = "running"
    /\ last' = [last EXCEPT !.pc = "done", !.ended = "error",
                            !.ret = Returns("AgentResult", errorResult)]
    /\ UNCHANGED <<flowVars, runsDir, files, saved>>

NextAgent ==
    \/ RunAgentRead
    \/ RunAgentSpawn
    \/ RunAgentClose
    \/ RunAgentError

SpecAgent == InitAgent /\ [][NextAgent]_vars

(***************************************************************************)
(* lib/config.ts: validateAgent and validateConfig.  A value of the parsed *)
(* YAML is given with its type; undefined stands for an absent key.        *)
(***************************************************************************)
undefined == "undefined"

String(text) == [type |-> "string", value |-> text]

Other(type) == [type |-> type, value |-> ""]

Whitespace == {" ", "\n"}

RECURSIVE trimEnd(_)
trimEnd(text) ==
    IF charAt(text, Len(text)) \in Whitespace THEN trimEnd(SubSeq(text, 1, Len(text) - 1))
    ELSE text

\* variant: only leading whitespace is removed
trim_start(text) == SubSeq(text, skipWhitespace(text, 1), Len(text))

\* String.prototype.trim
trim(text) == trimEnd(SubSeq(text, skipWhitespace(text, 1), Len(text)))

\* value.trim() of an optional string
trimOptional(raw) == IF raw.type = "string" THEN trim(raw.value) ELSE undefined

ConfigError(message) == ThrowsMessage("ConfigError", message)

\* validateAgent: the AgentConfig, or the ConfigError thrown; an agent object
\* has the keys name, promptPath, model, agent and whether the prompt file is
\* there
validateAgent(agent) ==
    IF agent.type # "object"
        THEN ConfigError("must be an object")
    ELSE IF agent.name.type # "string" \/ trim(agent.name.value) = ""
        THEN ConfigError("name must be a non-empty string")
    ELSE IF agent.promptPath.type # "string" \/ trim(agent.promptPath.value) = ""
        THEN ConfigError("promptPath must be a non-empty string")
    ELSE IF ~agent.promptExists
        THEN ConfigError("promptPath file not found")
    ELSE IF agent.model.type \notin {"undefined", "string"}
        THEN ConfigError("model must be a string")
    ELSE IF agent.model.type = "string" /\ ~includes(agent.model.value, "/")
        THEN ConfigError("model must be in format 'provider/model'")
    ELSE IF agent.agent.type \notin {"undefined", "string"}
        THEN ConfigError("agent must be a string")
    ELSE Returns("AgentConfig",
             [name |-> trim(agent.name.value), promptPath |-> trim(agent.promptPath.value),
              model |-> trimOptional(agent.model), agent |-> trimOptional(agent.agent)])

\* configObj.agents.map(validateAgent): the agents validated so far, or the
\* first ConfigError
RECURSIVE validateAgents(_, _)
validateAgents(raw, agents) ==
    IF raw = <<>> THEN Returns("array", agents)
    ELSE LET first == validateAgent(Head(raw))
         IN  IF first.outcome # "returned" THEN first
             ELSE validateAgents(Tail(raw), Append(agents, first.value))

\* the first agent name that the Set of names already has, undefined without one
RECURSIVE duplicateName(_, _)
duplicateName(agents, names) ==
    IF agents = <<>> THEN undefined
    ELSE IF Head(agents).name \in names THEN Head(agents).name
    ELSE duplicateName(Tail(agents), names \cup {Head(agents).name})

\* validateConfig: the optional settings, or the ConfigError thrown
validateSettings(settings) ==
    IF settings.type = "undefined" THEN Returns("undefined", undefined)
    ELSE IF settings.type # "object"
        THEN ConfigError("'settings' must be an object")
    ELSE IF settings.defaultModel.type \notin {"undefined", "string"}
        THEN ConfigError("settings.defaultModel must be a string")
    ELSE IF settings.defaultModel.type = "string" /\ ~includes(settings.defaultModel.value, "/")
        THEN ConfigError("settings.defaultModel must be in format 'provider/model'")
    ELSE IF settings.defaultAgent.type \notin {"undefined", "string"}
        THEN ConfigError("settings.defaultAgent must be a string")
    ELSE Returns("object", [defaultModel |-> trimOptional(settings.defaultModel),
                            defaultAgent |-> trimOptional(settings.defaultAgent)])

validateConfig(raw) ==
    IF raw.type # "object"
        THEN ConfigError("Configuration must be an object")
    ELSE IF raw.agents.type # "array"
        THEN ConfigError("'agents' must be an array")
    ELSE IF Len(raw.agents.value) = 0
        THEN ConfigError("'agents' array must have at least one agent")
    ELSE LET agents == validateAgents(raw.agents.value, <<>>)
             settings == validateSettings(raw.settings)
         IN  IF agents.outcome # "returned" THEN agents
             ELSE IF duplicateName(agents.value, {}) # undefined
                 THEN ConfigError("Duplicate agent name: " \o duplicateName(agents.value, {}))
             ELSE IF settings.outcome # "returned" THEN settings
             ELSE Returns("PipelineConfig",
                      [agents |-> agents.value, settings |-> settings.value])

(***************************************************************************)
(* Specification of the configuration check: validateConfig is called once *)
(* with a parsed pipeline.yaml of up to MaxEntries agents; last holds the  *)
(* parsed value and what validateConfig gave.                              *)
(***************************************************************************)
MaxEntries == 3

RawAgent(name, promptPath, promptExists, model, agentName) ==
    [type |-> "object", name |-> name, promptPath |-> promptPath,
     promptExists |-> promptExists, model |-> model, agent |-> agentName]

RawNames == {String("build"), String(" build\n"), String("test "), String(""),
             String("  "), Other("number"), Other("undefined")}

RawAgents ==
    {RawAgent(name, String("build.md"), TRUE, Other("undefined"), Other("undefined")) :
        name \in RawNames}
    \cup {Other("null"),
          RawAgent(String("review"), String(" "), TRUE, Other("undefined"), Other("undefined")),
          RawAgent(String("review"), String("review.md"), FALSE, Other("undefined"),
                   Other("undefined")),
          RawAgent(String("review"), String(" review.md"), TRUE, String("anthropic/m "),
                   String(" coder")),
          RawAgent(String("review"), String("review.md"), TRUE, String("m"),
                   Other("number"))}

RawSettings ==
    {Other("undefined"), Other("null"),
     [type |-> "object", defaultModel |-> Other("undefined"), defaultAgent |-> Other("undefined")],
     [type |-> "object", defaultModel |-> String(" anthropic/m"), defaultAgent |-> String("coder ")],
     [type |-> "object", defaultModel |-> String("m"), defaultAgent |-> Other("undefined")],
     [type |-> "object", defaultModel |-> Other("number"), defaultAgent |-> Other("undefined")],
     [type |-> "object", defaultModel |-> Other("undefined"), defaultAgent |-> Other("number")]}

RawConfigs ==
    {Other("null"),
     [type |-> "object", agents |-> [type |-> "undefined", value |-> <<>>],
      settings |-> Other("undefined")]}
    \cup {[type |-> "object", agents |-> [type |-> "array", value |-> entries],
           settings |-> settings] :
            entries \in UNION {[1..n -> RawAgents] : n \in 0..MaxEntries},
            settings \in RawSettings}

InitConfig ==
    /\ config = <<>>
    /\ runs = <<>>
    /\ dirs = {}
    /\ registered = {}
    /\ branches = {}
    /\ now = 0
    /\ proc = [p \in Procs |-> IdleProc]
    /\ cmds = 0
    /\ runsDir = FALSE
    /\ files = <<>>
    /\ saved = <<>>
    /\ \E raw \in RawConfigs : last = [op |-> "none", raw |-> raw, ret |-> Throws("none")]

\* loadConfig: validateConfig(parsed, configDir); the agents of a returned
\* configuration are the pipeline
ValidateConfig ==
    /\ last.op = "none"
    /\ LET ret == validateConfig(last.raw)
       IN  /\ last' = [last EXCEPT !.op = "validateConfig", !.ret = ret]
           /\ config' = IF ret.outcome = "returned"
                        THEN [n \in 1..Len(ret.value.agents) |-> ret.value.agents[n].name]
                        ELSE config
    /\ UNCHANGED <<runs, dirs, registered, branches, now, proc, cmds, runsDir, files, saved>>

SpecConfig == InitConfig /\ [][ValidateConfig]_vars

(***************************************************************************)
(* Specification of a cleanup during a run: process 1 is started once as   *)
(* `ocf run <id>`, process 2 runs `ocf cleanup <id> [--keep-state]`        *)
(* commands; the file system calls and git commands of the two interleave  *)
(* in any order.  A directory may have been left at a worktree path while  *)
(* no command ran.                                                         *)
(***************************************************************************)
SpecCleanupRace ==
    Init /\ [][\/ ManualMkdir
               \/ StartRace(1)
               \/ RunNext(1)
               \/ PipelineWorktreeDir(1)
               \/ PipelineWorktreeList(1)
               \/ CreateWorktreeDir(1)
               \/ CreateWorktreeList(1)
               \/ CreateWorktreeAdd(1)
               \/ PipelineInit(1)
               \/ AgentCheckpoint(1)
               \/ AgentReadPrompt(1)
               \/ AgentSpawn(1)
               \/ AgentClose(1)
               \/ AgentError(1)
               \/ AgentFailed(1)
               \/ AgentCompleted(1)
               \/ PipelineComplete(1)
               \/ RunExit(1)
               \/ StartCleanup(2)
               \/ CleanupWorktreeDir(2)
               \/ CleanupWorktreeList(2)
               \/ CleanupCheckState(2)
               \/ CleanupRemove(2)
               \/ CleanupBranch(2)
               \/ CleanupDeleteExists(2)
               \/ CleanupDeleteRm(2)]_vars

(***************************************************************************)
(* Properties                                                              *)
(***************************************************************************)
LastResult(p) == proc[p].results[Len(proc[p].results)]

\* runPipeline was called by p in the running `ocf run`
Called(p) == proc[p].cmd = "run" /\ proc[p].pc # "exited" /\ proc[p].calls # <<>>

\* the last runPipeline call of p has returned its result to the loop
Returned(p) == Called(p) /\ proc[p].pc = "loop"

Terminal(state) == state.status \in {"completed", "failed"}

AllZero(exits) == \A j \in 1..Len(exits) : exits[j] = 0

\* C1: a call of runPipeline(id) that finds a run-state record for id returns
\* at once with skipped / "run already exists"; the store (the record of id
\* included), the directories, the worktrees and the branches are what they
\* were at the call, and no agent was spawned.
C1_SkipsExistingRun ==
    \A p \in Procs :
        (Called(p) /\ proc[p].storyId \in DOMAIN proc[p].pre.runs)
            => /\ proc[p].pc = "loop"
               /\ LastResult(p).storyId = proc[p].storyId
               /\ LastResult(p).status = "skipped"
               /\ LastResult(p).skipReason = "run already exists"
               /\ runs = proc[p].pre.runs
               /\ dirs = proc[p].pre.dirs
               /\ registered = proc[p].pre.registered
               /\ branches = proc[p].pre.branches
               /\ proc[p].invoked = <<>>

C1_Witness ==
    \E p \in Procs :
        /\ Returned(p)
        /\ proc[p].storyId \in DOMAIN proc[p].pre.runs
        /\ LastResult(p).status = "skipped"

\* C2: when the agents before index k exited with 0, agent k failed and
\* runPipeline returned, the stored run state is failed with currentAgent
\* null, completedAgents the first k configured names and the error naming
\* agent k and its exit code; the result is failed with failedAgent agent k.
C2_FailureAtAgentK ==
    \A p \in Procs :
        (/\ Returned(p)
         /\ proc[p].exits # <<>>
         /\ AllZero(SubSeq(proc[p].exits, 1, Len(proc[p].exits) - 1))
         /\ proc[p].exits[Len(proc[p].exits)] # 0)
            => LET k == Len(proc[p].exits)
                   id == proc[p].storyId
               IN  /\ id \in DOMAIN runs
                   /\ runs[id].status = "failed"
                   /\ runs[id].currentAgent = null
                   /\ runs[id].completedAgents = SubSeq(config, 1, k - 1)
                   /\ runs[id].error = "Agent " \o config[k] \o " failed with exit code "
                                           \o ToString(proc[p].exits[k])
                   /\ LastResult(p).status = "failed"
                   /\ LastResult(p).failedAgent = config[k]

C2_Witness ==
    \E p \in Procs :
        /\ Returned(p)
        /\ proc[p].exits = <<0, 2>>
        /\ LastResult(p).failedAgent = config[2]
        /\ runs[proc[p].storyId].completedAgents = <<config[1]>>

\* C3: when all configured agents exited with 0 and runPipeline returned, the
\* stored run state is completed with currentAgent null, error null and
\* completedAgents the configured names in order; the result is completed.
C3_AllAgentsSucceed ==
    \A p \in Procs :
        (Returned(p) /\ Len(proc[p].exits) = Len(config) /\ AllZero(proc[p].exits))
            => LET id == proc[p].storyId
               IN  /\ id \in DOMAIN runs
                   /\ runs[id].status = "completed"
                   /\ runs[id].currentAgent = null
                   /\ runs[id].error = null
                   /\ runs[id].completedAgents = config
                   /\ LastResult(p).status = "completed"

C3_Witness ==
    \E p \in Procs :
        /\ Returned(p)
        /\ Len(config) = 2
        /\ proc[p].exits = <<0, 0>>
        /\ runs[proc[p].storyId].status = "completed"

\* an agent subprocess is spawned for id in this step
SpawnsFor(id) ==
    \E p \in Procs : /\ proc[p].storyId = id
                     /\ Len(proc'[p].invoked) > Len(proc[p].invoked)

\* C4: while a stored record is completed or failed and is not deleted, no
\* step modifies it and no step spawns an agent for its story id.
C4_TerminalIsFinal ==
    [][\A id \in Ids :
          (id \in DOMAIN runs /\ Terminal(runs[id]) /\ id \in DOMAIN runs')
              => (runs'[id] = runs[id] /\ ~SpawnsFor(id))]_vars

C4_Witness ==
    \E p \in Procs :
        /\ Returned(p)
        /\ proc[p].storyId \in DOMAIN proc[p].pre.runs
        /\ Terminal(proc[p].pre.runs[proc[p].storyId])
        /\ LastResult(p).skipReason = "run already exists"
        /\ runs[proc[p].storyId] = proc[p].pre.runs[proc[p].storyId]

C6_RunStateGuardFirst ==
    \A p \in Procs :
        (Called(p) /\ proc[p].storyId \in DOMAIN proc[p].pre.runs)
            => /\ proc[p].pc \notin {"wtExists", "wtList", "createExists", "createList",
                                     "createAdd", "initSave", "agentSave", "agentRead",
                                     "agentSpawn", "agentRun", "agentResult", "finalSave"}
               /\ LastResult(p).skipReason = "run already exists"
               /\ LastResult(p).skipReason # "worktree already exists"
               /\ proc[p].exits = <<>>
               /\ proc[p].worktreePath = ""

\* both cases in one `ocf run a b`: the worktree of a was removed and its
\* record kept, record and worktree of b both exist
C6_Witness ==
    \E p \in Procs :
        /\ Returned(p)
        /\ Len(proc[p].results) = 2
        /\ proc[p].results[1].storyId # proc[p].results[2].storyId
        /\ \A n \in 1..2 : /\ proc[p].results[n].skipReason = "run already exists"
                           /\ proc[p].results[n].storyId \in DOMAIN runs
        /\ proc[p].results[1].storyId \notin dirs \cup registered
        /\ proc[p].results[2].storyId \in dirs \cap registered

\* C7: a call of runPipeline(id) that passed both guards (no record, no
\* worktree at the call) and came back without a worktree path from
\* createWorktree returns failed with an error text and no failedAgent; no
\* record for id exists and no agent was spawned.
C7_WorktreeCreationFails ==
    \A p \in Procs :
        (/\ Returned(p)
         /\ proc[p].storyId \notin DOMAIN proc[p].pre.runs
         /\ ~worktreeExists(proc[p].storyId, proc[p].pre.dirs, proc[p].pre.registered)
         /\ proc[p].worktreePath = "")
            => /\ LastResult(p).status = "failed"
               /\ LastResult(p).error # null
               /\ LastResult(p).failedAgent = null
               /\ proc[p].storyId \notin DOMAIN runs
               /\ proc[p].invoked = <<>>

C7_Witness ==
    \E p \in Procs :
        /\ Returned(p)
        /\ proc[p].worktreePath = ""
        /\ LastResult(p).status = "failed"
        /\ proc[p].storyId \in proc[p].pre.dirs
        /\ proc[p].storyId \notin DOMAIN runs

NumberOf(results, status) ==
    Cardinality({n \in 1..Len(results) : results[n].status = status})

\* C8: `ocf run` calls runPipeline for the story ids in the given order, each
\* position once; results has the entry of the n-th id at position n; when
\* the command ends with process.exit every id was called and has its
\* result, and the summary counts are the numbers of completed, failed and
\* skipped results, which add up to the number of ids.
C8_EachIdOnceInOrder ==
    \A p \in Procs :
        proc[p].cmd = "run"
            => /\ Len(proc[p].calls) <= Len(proc[p].storyIds)
               /\ proc[p].calls = SubSeq(proc[p].storyIds, 1, Len(proc[p].calls))
               /\ Len(proc[p].results) <= Len(proc[p].calls)
               /\ \A n \in 1..Len(proc[p].results) :
                     proc[p].results[n].storyId = proc[p].storyIds[n]
               /\ (proc[p].pc = "exited" /\ proc[p].ended = "exit" /\ proc[p].storyIds # <<>>)
                     => /\ proc[p].calls = proc[p].storyIds
                        /\ Len(proc[p].results) = Len(proc[p].storyIds)
                        /\ proc[p].summary.completed = NumberOf(proc[p].results, "completed")
                        /\ proc[p].summary.failed = NumberOf(proc[p].results, "failed")
                        /\ proc[p].summary.skipped = NumberOf(proc[p].results, "skipped")
                        /\ proc[p].summary.completed + proc[p].summary.failed
                              + proc[p].summary.skipped = Len(proc[p].storyIds)

C8_Witness ==
    \E p \in Procs :
        /\ proc[p].cmd = "run"
        /\ proc[p].pc = "exited"
        /\ proc[p].ended = "exit"
        /\ Len(proc[p].storyIds) = 2
        /\ proc[p].results[1].status = "failed"
        /\ proc[p].results[2].status = "completed"
        /\ proc[p].summary = [completed |-> 1, failed |-> 1, skipped |-> 0]

\* C9: a run command that was not interrupted has called runPipeline for
\* every story id of its list when it ends, also when the pipeline of an
\* earlier id raised an error instead of returning a result.
C9_ErrorDoesNotAbortLoop ==
    \A p \in Procs :
        (proc[p].cmd = "run" /\ proc[p].pc = "exited" /\ proc[p].ended # "killed")
            => proc[p].calls = proc[p].storyIds

Range(seq) == {seq[n] : n \in 1..Len(seq)}

NoDuplicates(seq) == \A m, n \in 1..Len(seq) : seq[m] = seq[n] => m = n

IsPrefix(seq, of) == Len(seq) <= Len(of) /\ seq = SubSeq(of, 1, Len(seq))

\* C11: while the subprocess of the i-th configured agent runs, the stored
\* record of the story id is in_progress, its currentAgent is that agent and
\* its completedAgents are the i-1 agents before it; a crash or an interrupt
\* at that moment leaves exactly this record.
C11_RecordNamesRunningAgent ==
    \A p \in Procs :
        proc[p].pc = "agentRun"
            => LET i == Len(proc[p].invoked)
                   id == proc[p].storyId
               IN  /\ i \in 1..Len(config)
                   /\ proc[p].invoked[i] = config[i]
                   /\ id \in DOMAIN runs
                   /\ runs[id].status = "in_progress"
                   /\ runs[id].currentAgent = config[i]
                   /\ runs[id].completedAgents = SubSeq(config, 1, i - 1)
                   /\ runs[id].error = null

C11_Witness ==
    \E p \in Procs :
        /\ proc[p].pc = "agentRun"
        /\ Len(proc[p].invoked) = 2
        /\ runs[proc[p].storyId].currentAgent = config[2]
        /\ runs[proc[p].storyId].completedAgents = <<config[1]>>

\* C12: in one call of runPipeline the agents spawned so far are the first
\* configured agents in configured order, each once; an agent is spawned only
\* when every agent before it has exited with code 0, so none is spawned
\* after a failure.
C12_InvokedIsPrefix ==
    \A p \in Procs :
        Called(p)
            => /\ IsPrefix(proc[p].invoked, config)
               /\ NoDuplicates(proc[p].invoked)
               /\ Len(proc[p].exits) \in {Len(proc[p].invoked) - 1, Len(proc[p].invoked)}
               /\ \A j \in 1..Len(proc[p].exits) :
                     j < Len(proc[p].invoked) => proc[p].exits[j] = 0

C12_Witness ==
    \E p \in Procs :
        /\ Returned(p)
        /\ Len(config) = 2
        /\ proc[p].invoked = <<config[1]>>
        /\ proc[p].exits = <<2>>
        /\ LastResult(p).failedAgent = config[1]

\* C13 as claimed: in every stored record completedAgents has no duplicates
\* and is a strict prefix of the configured agents (shorter than the
\* configured sequence).
C13_StrictPrefix ==
    \A id \in DOMAIN runs :
        /\ NoDuplicates(runs[id].completedAgents)
        /\ IsPrefix(runs[id].completedAgents, config)
        /\ Len(runs[id].completedAgents) < Len(config)

\* C13 amended: in every stored record completedAgents has no duplicates and
\* is a prefix of the configured agents; it is the whole configured sequence
\* exactly from the moment the last agent has succeeded, and so in every
\* completed record.
C13_Prefix ==
    \A id \in DOMAIN runs :
        /\ NoDuplicates(runs[id].completedAgents)
        /\ IsPrefix(runs[id].completedAgents, config)
        /\ runs[id].status = "completed" => runs[id].completedAgents = config
        /\ runs[id].status = "failed" => Len(runs[id].completedAgents) < Len(config)

C13_Witness ==
    \E id \in DOMAIN runs :
        /\ Len(config) = 2
        /\ runs[id].completedAgents = config
        /\ runs[id].status = "in_progress"

\* C14: in every stored record currentAgent is null or names an agent that is
\* not in completedAgents.
C14_CurrentNotCompleted ==
    \A id \in DOMAIN runs :
        \/ runs[id].currentAgent = null
        \/ runs[id].currentAgent \notin Range(runs[id].completedAgents)

\* C15: when two `ocf run` processes race for story ids on a repository
\* without records and worktrees, for each id at most one of them gets past
\* createWorktree; only that one writes records of the id and spawns agents
\* for it, and the other one's call returns skipped, or failed without a
\* failed agent.
C15_OneWinner ==
    \A id \in Ids :
        LET past == {p \in Procs : id \in proc[p].created}
        IN  /\ Cardinality(past) <= 1
            /\ \A p \in Procs \ past :
                  /\ id \notin proc[p].wrote
                  /\ proc[p].storyId = id => proc[p].invoked = <<>>
                  /\ (proc[p].storyIds = <<id>> /\ proc[p].results # <<>>)
                        => /\ proc[p].results[1].status \in {"skipped", "failed"}
                           /\ proc[p].results[1].failedAgent = null
            /\ id \in DOMAIN runs => \E p \in past : id \in proc[p].wrote

C15_Witness ==
    \E p, q \in Procs :
        /\ p # q
        /\ proc[p].storyId \in proc[p].created \cap proc[p].wrote
        /\ proc[p].invoked # <<>>
        /\ Returned(q)
        /\ proc[q].storyId = proc[p].storyId
        /\ proc[q].pre.runs = <<>>
        /\ proc[q].pre.dirs = {}
        /\ LastResult(q).status = "failed"

\* C16: an agent subprocess that could not be started, or that ended without
\* an exit code, is reported by runAgent as success false with exit code 1;
\* runPipeline then saves the failed state with currentAgent null and the
\* error naming the agent and code 1, returns failed, and spawns no further
\* agent.
C16_SpawnErrorIsExitOne ==
    \A p \in Procs :
        (/\ Called(p)
         /\ proc[p].invoked # <<>>
         /\ Len(proc[p].exits) = Len(proc[p].invoked)
         /\ proc[p].code = NoExit)
            => LET k == Len(proc[p].invoked)
                   id == proc[p].storyId
               IN  /\ proc[p].exits[k] = 1
                   /\ proc[p].pc \in {"agentResult", "loop"}
                   /\ proc[p].pc = "agentResult"
                         => proc[p].result = [success |-> FALSE, exitCode |-> 1]
                   /\ proc[p].pc = "loop"
                         => /\ runs[id].status = "failed"
                            /\ runs[id].currentAgent = null
                            /\ runs[id].completedAgents = SubSeq(config, 1, k - 1)
                            /\ runs[id].error
                                  = "Agent " \o config[k] \o " failed with exit code 1"
                            /\ LastResult(p).status = "failed"
                            /\ LastResult(p).failedAgent = config[k]

C16_Witness ==
    \E p \in Procs :
        /\ Returned(p)
        /\ Len(config) = 2
        /\ proc[p].invoked = <<config[1]>>
        /\ proc[p].stderr # ""
        /\ runs[proc[p].storyId].status = "failed"
        /\ runs[proc[p].storyId].error = "Agent build failed with exit code 1"

\* the value has the fields of a RunState
IsRunState(kind, value) == kind = "object" /\ DOMAIN value = Range(RunStateFields)

\* the files that hold a record of story id
RecordsOf(id) ==
    {f \in DOMAIN files :
        LET parsed == JSONparse(files[f])
        IN  /\ parsed.ok
            /\ IsRunState(parsed.kind, parsed.value)
            /\ parsed.value["storyId"] = id}

\* C17: loadRunState(s.storyId) after saveRunState(s) gives a record equal to
\* s; a later save of the same story id replaces the record, so after saves
\* and deletes in any order each story id has at most one stored record,
\* the one saved last, and none after its deletion.
C17_LoadGivesLastSaved ==
    \A id \in Ids :
        LET loaded == loadRunState(id, files)
        IN  /\ id \in DOMAIN saved
                  => /\ loaded.outcome = "returned"
                     /\ IsRunState(loaded.kind, loaded.value)
                     /\ loaded.value = saved[id]
                     /\ Cardinality(RecordsOf(id)) = 1
            /\ (last.op = "save" /\ last.storyId = id /\ last.ret.outcome = "returned")
                  => id \in DOMAIN saved
            /\ (last.op = "delete" /\ last.storyId = id /\ last.ret.outcome = "returned")
                  => /\ id \notin DOMAIN saved
                     /\ RecordsOf(id) = {}

C17_Witness ==
    /\ last.op = "save"
    /\ last.ret.outcome = "returned"
    /\ DOMAIN saved = Ids
    /\ Len(saved[last.storyId].completedAgents) = 2
    /\ loadRunState(last.storyId, files).value = saved[last.storyId]

\* C18: loadRunState(id) gives null when there is no file for id, fails with
\* a StateError when the file does not hold a run state, and whatever else
\* it returns has the fields of a RunState.
C18_LoadNeverHalfValid ==
    last.op = "load"
        => LET statePath == getRunStatePath(last.storyId)
               parsed == JSONparse(files[statePath])
           IN  /\ statePath \notin DOMAIN files
                     => (last.ret.outcome = "returned" /\ last.ret.kind = "null")
               /\ (statePath \in DOMAIN files
                      /\ ~(parsed.ok /\ IsRunState(parsed.kind, parsed.value)))
                     => last.ret.outcome = "StateError"
               /\ (last.ret.outcome = "returned" /\ statePath \in DOMAIN files)
                     => IsRunState(last.ret.kind, last.ret.value)

\* the entries are in descending order of updatedAt
SortedByUpdatedAt(states) ==
    \A m, n \in 1..Len(states) :
        m < n => getTime(states[m].value["updatedAt"]) >= getTime(states[n].value["updatedAt"])

\* C19: listRuns never raises; it returns the run states of the directory,
\* each once, in descending order of updatedAt, and nothing made of a file
\* that holds no run state.
C19_ListOnlyValidRecords ==
    last.op = "list"
        => /\ last.ret.outcome = "returned"
           /\ \A n \in 1..Len(last.ret.value) :
                 IsRunState(last.ret.value[n].kind, last.ret.value[n].value)
           /\ \A id \in Ids :
                 Cardinality({n \in 1..Len(last.ret.value) :
                                 last.ret.value[n].value["storyId"] = id})
                     = Cardinality(RecordsOf(id))
           /\ SortedByUpdatedAt(last.ret.value)

\* C20: deleteRunState(id) without a file of id returns false and leaves the
\* directory as it was; with the file it returns true, after which the file
\* is gone, loadRunState(id) is null and the other story ids load what they
\* loaded before; a delete that follows finds no file and returns false.
C20_DeleteRemovesOnlyItsRecord ==
    last.op = "delete"
        => LET id == last.storyId
               existed == getRunStatePath(id) \in DOMAIN last.files
           IN  /\ ~existed
                     => /\ last.ret.outcome = "returned"
                        /\ last.ret.value = FALSE
                        /\ files = last.files
               /\ (existed /\ last.ret.outcome = "returned")
                     => /\ last.ret.value = TRUE
                        /\ id \notin DOMAIN saved
                        /\ getRunStatePath(id) \notin DOMAIN files
                        /\ loadRunState(id, files).outcome = "returned"
                        /\ loadRunState(id, files).kind = "null"
                        /\ \A other \in Ids \ {id} :
                              loadRunState(other, files) = loadRunState(other, last.files)
                        /\ DOMAIN files \subseteq DOMAIN last.files
               /\ last.ret.outcome # "returned" => files = last.files

C20_Witness ==
    /\ last.op = "delete"
    /\ last.ret.outcome = "returned"
    /\ last.ret.value = TRUE
    /\ loadRunState(last.storyId, last.files).kind = "object"
    /\ loadRunState(last.storyId, files).kind = "null"
    /\ \E other \in DOMAIN saved : loadRunState(other, files).value = saved[other]

\* a workspace of id: its directory exists and its path is a registered
\* worktree
Workspace(id, d, reg) == id \in d /\ id \in reg

\* C21: worktreeExists(id) is true exactly when the directory of id exists
\* and the path of id is a registered worktree, whatever other worktrees and
\* stray directories there are.
C21_ExactWorktree ==
    last.op = "worktreeExists"
        => (last.ret.value <=> Workspace(last.storyId, dirs, registered))

C23_RemoveWorktree ==
    (last.op = "removeWorktree" /\ last.ret.outcome = "returned")
        => /\ ~worktreeExists(last.storyId, dirs, registered)
           /\ (last.deleteBranch /\ ~last.branchFailed) => last.storyId \notin branches
           /\ ~last.deleteBranch => branches = last.before.branches

\* C24: `ocf cleanup id` goes on to remove something only when a workspace
\* or a run state of id exists, and exits with 1 otherwise; when it ends
\* with 0 the workspace it found is no longer registered, the run state is
\* deleted without --keep-state and is still there with it.
C24_CleanupWhatExists ==
    \A p \in Procs :
        proc[p].cmd = "cleanup"
            => LET id == proc[p].storyId
                   done == proc[p].pc = "exited" /\ proc[p].ended = "exit"
               IN  /\ proc[p].pc = "clRemove"
                         => (Workspace(id, dirs, registered) \/ id \in DOMAIN runs)
                   /\ (done /\ ~proc[p].hasWorktree /\ ~proc[p].hasState)
                         => proc[p].exitCode = 1
                   /\ (done /\ proc[p].exitCode = 0)
                         => /\ proc[p].hasWorktree => id \notin registered
                            /\ ~proc[p].keepState => id \notin DOMAIN runs
                            /\ (proc[p].keepState /\ proc[p].hasState) => id \in DOMAIN runs

\* C25: after a run for an id has ended in any way, a cleanup of the id
\* without --keep-state that ended with exit code 0, followed by a run of the
\* id, is not skipped: nothing of the earlier run stands in the way of the new
\* worktree (git worktree add -b can succeed), and the pipeline starts at the
\* first agent with a new record whose completedAgents is empty.
C25_CleanupThenRunStartsOver ==
    LET pr == proc[1]
        id == proc[2].storyId
    IN  (/\ cmds = 3
         /\ pr.cmd = "run"
         /\ pr.storyIds = <<id>>
         /\ proc[2].ended = "exit"
         /\ proc[2].exitCode = 0
         /\ ~proc[2].keepState)
            => /\ \A n \in 1..Len(pr.results) : pr.results[n].status # "skipped"
               /\ pr.pc = "createAdd"
                    => canAddWorktree(id, dirs, registered, branches, TRUE)
               /\ (pr.pc = "agentSave" /\ pr.k = 1)
                    => /\ id \in pr.created
                       /\ id \in DOMAIN runs
                       /\ runs[id].completedAgents = <<>>
                       /\ runs[id].status = "in_progress"
               /\ IsPrefix(pr.invoked, config)

\* the name of the placeholder a piece of a template is, "" for other pieces
nameOf(token) ==
    IF \E name \in Known \cup Unknown : token = Placeholder(name)
    THEN CHOOSE name \in Known \cup Unknown : token = Placeholder(name)
    ELSE ""

\* the text a template stands for, piece by piece: the value for a
\* placeholder of a variable, the piece itself otherwise
RECURSIVE Substituted(_, _)
Substituted(parts, variables) ==
    IF parts = <<>> THEN ""
    ELSE (IF nameOf(Head(parts)) \in Known THEN variables[nameOf(Head(parts))]
          ELSE Head(parts)) \o Substituted(Tail(parts), variables)

SubstituteCalled == last.op = "substituteVariables"

\* C26: substituteVariables replaces every well-formed placeholder of
\* storyId, branch, worktreePath and agentName by the value of the variable,
\* and leaves well-formed placeholders of other names and all other text as
\* they are.
C26_KnownReplacedRestKept ==
    SubstituteCalled => last.ret.result = Substituted(last.parts, last.variables)

\* a template with a variable used twice, a placeholder of another name and
\* plain text
C26_Witness ==
    /\ SubstituteCalled
    /\ last.parts = <<Placeholder("storyId"), Placeholder("x"), Placeholder("storyId")>>
    /\ last.ret.result = "D-10{{x}}D-10"

\* the pieces of a template that are placeholders of names without a value
UnknownAt(parts) == {n \in 1..Len(parts) : nameOf(parts[n]) \in Unknown}

\* the first piece of a template that is the placeholder of name
FirstAt(parts, name) ==
    CHOOSE n \in 1..Len(parts) :
        /\ parts[n] = Placeholder(name)
        /\ \A m \in 1..(n - 1) : parts[m] # Placeholder(name)

\* C27: missingVariables holds exactly the names of the well-formed
\* placeholders that have no value, each name once, in the order in which the
\* names first occur in the template; it is empty when every placeholder has a
\* value.
C27_MissingOnceInOrder ==
    SubstituteCalled
        => LET missing == last.ret.missingVariables
               parts == last.parts
           IN  /\ Range(missing) = {nameOf(parts[n]) : n \in UnknownAt(parts)}
               /\ NoDuplicates(missing)
               /\ \A i, j \in 1..Len(missing) :
                     i < j => FirstAt(parts, missing[i]) < FirstAt(parts, missing[j])
               /\ UnknownAt(parts) = {} => missing = <<>>

\* two names without a value, the one that occurs first occurs again behind
\* the other
C27_Witness ==
    /\ SubstituteCalled
    /\ last.parts = <<Placeholder("y_1"), Placeholder("x"), Placeholder("y_1")>>
    /\ last.ret.missingVariables = <<"y_1", "x">>

\* C28: a template without a well-formed placeholder (plain text, the empty
\* text, or malformed placeholders: single braces, braces that are not
\* closed, blanks inside the braces, no name) is returned as it is, with no
\* missing variables; malformed placeholders are not matched even when they
\* hold the name of a variable.
C28_MalformedUntouched ==
    (SubstituteCalled /\ \A n \in 1..Len(last.parts) : nameOf(last.parts[n]) = "")
        => /\ last.ret.result = last.template
           /\ last.ret.missingVariables = <<>>

\* malformed placeholders with the name of a variable
C28_Witness ==
    /\ SubstituteCalled
    /\ last.parts = <<"{{ storyId }}", "{storyId}", "{{branch">>
    /\ last.ret.result = "{{ storyId }}{storyId}{{branch"

AgentCalled == last.op = "runAgent"

IsTrimOf(name, text) ==
    \E a \in 1..(Len(text) + 1), b \in 0..Len(text) :
        /\ name = SubSeq(text, a, b)
        /\ \A n \in (1..(a - 1)) \cup ((b + 1)..Len(text)) : charAt(text, n) \in Whitespace
        /\ charAt(name, 1) \notin Whitespace
        /\ charAt(name, Len(name)) \notin Whitespace

\* the agents entry of the parsed configuration is a list
ListGiven == last.raw.type = "object" /\ last.raw.agents.type = "array"

\* two entries of the list have names that are equal after trimming
SameNameTwice(entries) ==
    \E i, j \in 1..Len(entries) :
        /\ i < j
        /\ entries[i].type = "object" /\ entries[i].name.type = "string"
        /\ entries[j].type = "object" /\ entries[j].name.type = "string"
        /\ \E a \in 1..Len(entries[i].name.value), b \in 1..Len(entries[i].name.value) :
              LET name == SubSeq(entries[i].name.value, a, b)
              IN  /\ name # ""
                  /\ IsTrimOf(name, entries[i].name.value)
                  /\ IsTrimOf(name, entries[j].name.value)

\* C30: a configuration that validateConfig returns has at least one agent,
\* the agents are those of the input in the input's order, and their names
\* are the input's names without surrounding whitespace, not empty and
\* pairwise distinct; an empty agents list, and a list with two names that
\* are equal after trimming, is rejected with a ConfigError.
C30_ValidatedAgents ==
    last.op = "validateConfig"
        => /\ last.ret.outcome = "returned"
                => LET agents == last.ret.value.agents
                       entries == last.raw.agents.value
                   IN  /\ Len(agents) >= 1
                       /\ Len(agents) = Len(entries)
                       /\ \A n \in 1..Len(agents) :
                             /\ agents[n].name # ""
                             /\ IsTrimOf(agents[n].name, entries[n].name.value)
                       /\ \A i, j \in 1..Len(agents) :
                             i # j => agents[i].name # agents[j].name
           /\ (ListGiven /\ (last.raw.agents.value = <<>> \/ SameNameTwice(last.raw.agents.value)))
                => last.ret.outcome = "ConfigError"

\* a configuration whose names had whitespace around them was returned
C30_Witness ==
    /\ last.op = "validateConfig"
    /\ last.ret.outcome = "returned"
    /\ Len(last.raw.agents.value) = 3
    /\ last.raw.agents.value[1].name = String("test ")
    /\ last.raw.agents.value[2].name = String(" build\n")
    /\ last.ret.value.agents[1].name = "test"
    /\ last.ret.value.agents[2].name = "build"
    /\ last.ret.value.agents[3].name = "review"

\* the value the agent gives, otherwise the value of the settings; absent
\* tells which values count as not given
Resolved(own, default, absent) == IF own \notin absent THEN own ELSE default

\* the arguments of opencode by the rule of the flags
ArgumentsByRule(call, absent) ==
    LET m == Resolved(call.model, call.settings.defaultModel, absent)
        a == Resolved(call.agent, call.settings.defaultAgent, absent)
    IN  <<"run">>
            \o (IF m \notin absent THEN <<"--model", m>> ELSE <<>>)
            \o (IF a \notin absent THEN <<"--agent", a>> ELSE <<>>)
            \o <<Substituted(call.parts, call.variables)>>

\* C31: the arguments opencode is started with are "run", then "--model" and
\* m if m is present, then "--agent" and a if a is present, then the
\* substituted prompt, where m is the agent's model if set and else
\* settings.defaultModel, and a is the agent's agent if set and else
\* settings.defaultAgent; a flag is left out only when neither the agent nor
\* the settings give a value.  An empty string may count as a value or as no
\* value, as long as it counts the same everywhere.
C31_ArgumentsOfOpencode ==
    (AgentCalled /\ last.pc \in {"running", "done"})
        => \/ last.args = ArgumentsByRule(last, {null})
           \/ last.args = ArgumentsByRule(last, {null, ""})

\* the story ids whose record a step writes: a new record, or another record
\* than before
Written == {id \in DOMAIN runs' : id \notin DOMAIN runs \/ runs'[id] # runs[id]}

\* C32: all records a pipeline run persists carry the storyId, the branch
\* flow/<storyId>, the worktreePath and the startedAt of the first record it
\* persisted: a step that writes over a record changes at most status,
\* currentAgent, completedAgents, updatedAt and error.
C32_IdentityFieldsKept ==
    [][\A id \in Written :
          /\ runs'[id].storyId = id
          /\ runs'[id].branch = "flow/" \o id
          /\ runs'[id].worktreePath = gitRoot \o "/" \o id
          /\ id \in DOMAIN runs
                => /\ runs'[id].storyId = runs[id].storyId
                   /\ runs'[id].branch = runs[id].branch
                   /\ runs'[id].worktreePath = runs[id].worktreePath
                   /\ runs'[id].startedAt = runs[id].startedAt]_vars

\* a run has written its last record later than its first
C32_Witness ==
    \E id \in DOMAIN runs :
        /\ runs[id].status = "completed"
        /\ runs[id].startedAt # runs[id].updatedAt

\* C33: in every persisted record error is set exactly when status is
\* failed, and currentAgent is null when status is completed or failed.
C33_ErrorIffFailed ==
    \A id \in DOMAIN runs :
        /\ (runs[id].error # null) <=> (runs[id].status = "failed")
        /\ runs[id].status \in {"completed", "failed"} => runs[id].currentAgent = null

\* a failed record with its message, written after the first agent succeeded
C33_Witness ==
    \E id \in DOMAIN runs :
        /\ runs[id].status = "failed"
        /\ runs[id].error # null
        /\ runs[id].completedAgents # <<>>

\* C34: runPipeline(A) leaves the record and the workspace of every other
\* story id B as they were when it was called, however the call for A goes.
C34_OtherStoriesUntouched ==
    \A p \in Procs :
        Called(p)
            => \A B \in Ids \ {proc[p].storyId} :
                  /\ (B \in DOMAIN runs) <=> (B \in DOMAIN proc[p].pre.runs)
                  /\ B \in DOMAIN runs => runs[B] = proc[p].pre.runs[B]
                  /\ (B \in dirs) <=> (B \in proc[p].pre.dirs)
                  /\ (B \in registered) <=> (B \in proc[p].pre.registered)
                  /\ (B \in branches) <=> (B \in proc[p].pre.branches)

\* the call for A has written its completed record while B has a record and
\* a worktree
C34_Witness ==
    \E p \in Procs :
        /\ Returned(p)
        /\ LastResult(p).status = "completed"
        /\ \E B \in Ids \ {proc[p].storyId} :
              B \in DOMAIN runs /\ B \in registered /\ runs[B].status = "failed"

\* C35: the statuses of the records a pipeline run persists are in_progress,
\* one or more times, and then one terminal status: no record is persisted
\* with status pending, the first record has status in_progress, no current
\* agent and no completed agents, and no record is written over a completed
\* or failed record.
C35_InProgressThenTerminal ==
    [][\A id \in Written :
          /\ runs'[id].status # "pending"
          /\ id \notin DOMAIN runs
                => /\ runs'[id].status = "in_progress"
                   /\ runs'[id].currentAgent = null
                   /\ runs'[id].completedAgents = <<>>
          /\ id \in DOMAIN runs => runs[id].status = "in_progress"]_vars

\* a run has persisted its first record
C35_Witness ==
    \E p \in Procs :
        /\ proc[p].pc = "agentSave"
        /\ proc[p].k = 1
        /\ proc[p].storyId \in DOMAIN runs
        /\ runs[proc[p].storyId].status = "in_progress"

\* C36: no runPipeline call that persisted a record ends, by returning or by
\* an error, while that record has status in_progress: when the command has
\* ended by itself, every record it wrote is completed or failed.
C36_EndsWithTerminalRecord ==
    \A p \in Procs :
        (proc[p].cmd = "run" /\ proc[p].pc = "exited" /\ proc[p].ended \in {"exit", "uncaught"})
            => \A id \in proc[p].wrote :
                  id \in DOMAIN runs => runs[id].status \in {"completed", "failed"}

\* C37: when `ocf cleanup <id>` without --keep-state has deleted the record
\* of id while or after `ocf run <id>` wrote it, then once both commands
\* have ended there is no record of id: no later checkpoint of the run
\* creates it again.
C37_DeletedStaysDeleted ==
    LET run == proc[1]
        cleanup == proc[2]
    IN  (/\ run.cmd = "run" /\ run.pc = "exited"
         /\ cleanup.cmd = "cleanup" /\ cleanup.pc = "exited"
         /\ cleanup.storyId \in run.wrote
         /\ cleanup.hasState /\ ~cleanup.keepState
         /\ cleanup.ended = "exit" /\ cleanup.exitCode = 0)
            => cleanup.storyId \notin DOMAIN runs

\* C38: when cleanup could not remove the worktree of id, it exits with an
\* error before it touches the run state: the worktree it found is still
\* there, the exit code is 1, and a record it found is still there too.
C38_FailedRemovalKeepsRecord ==
    \A p \in Procs :
        (/\ proc[p].cmd = "cleanup" /\ proc[p].pc = "exited" /\ proc[p].ended = "exit"
         /\ proc[p].hasWorktree
         /\ proc[p].storyId \in registered)
            => /\ proc[p].exitCode = 1
               /\ proc[p].hasState
                    => /\ proc[p].storyId \in DOMAIN runs
                       /\ runs[proc[p].storyId].storyId = proc[p].storyId

\* cleanup without --keep-state found worktree and record, and the removal
\* of the worktree failed
C38_Witness ==
    \E p \in Procs :
        /\ proc[p].cmd = "cleanup" /\ proc[p].pc = "exited" /\ proc[p].ended = "exit"
        /\ proc[p].hasWorktree /\ proc[p].hasState /\ ~proc[p].keepState
        /\ proc[p].exitCode = 1
        /\ proc[p].storyId \in registered
        /\ proc[p].storyId \in DOMAIN runs
====
